---------------------------- MODULE Spec2Model ----------------------------
(***************************************************************************)
(* A model of lantern_extras' two bulk pipelines:                          *)
(*   - lantern_cli/src/embeddings/mod.rs: the source -> transform -> sink  *)
(*     pipeline of create_embeddings_from_db (producer_worker,             *)
(*     embedding_worker, db_exporter_worker);                              *)
(*   - lantern_pq/src/compression.rs: get_closest_centroid,                *)
(*     compress_vectors, write_compressed_rows and the parallel            *)
(*     coordinator compress_and_write_vectors.                             *)
(*                                                                         *)
(* Specifications:                                                         *)
(*   SpecSink      db_exporter_worker fed with arbitrary batches           *)
(*   SpecRanges    the task / worker key-range arithmetic                  *)
(*   SpecQuant     get_closest_centroid and compress_vectors               *)
(*   SpecCompress  compress_and_write_vectors with its parallel workers    *)
(*   SpecConnections  the worker count of compress_and_write_vectors       *)
(*   SpecProgress  the shared progress counter under concurrent workers    *)
(*   SpecPairing   the pairing of ids and vectors in embedding_worker      *)
(*   SpecExporters a job with the database sink or the CSV sink            *)
(*   SpecPartial   a job of the sink or of the compression coordinator     *)
(*   Spec          the whole embedding pipeline                            *)
(*   SpecLive      the same with the threads scheduled fairly              *)
(***************************************************************************)
EXTENDS Integers, Sequences, FiniteSets, TLC

VARIABLES
    \* ---- db_exporter_worker (mod.rs 241-390) and its inbound channel
    item_count,          \* estimated total handed to the sink (i64)
    stream,              \* args.stream
    has_cb,              \* progress_cb.is_some()
    create_column,       \* args.create_column
    has_privilege,       \* the principal holds UPDATE on the destination column
    setup_log,           \* history: the calls the sink issued before its loop
    received,            \* history: the tracked records the sink has received
    elapsed_at_check,    \* history: the interval had run out at the last check
    emb_q,               \* batches in flight on the embedding -> sink channel
    emb_tx_open,         \* the channel's Sender is still alive
    emb_rx_open,         \* the channel's Receiver is still alive
    e_pc,                \* sink position: "setup", "recv", "done"
    writer_null,         \* the open COPY stream was opened WITH NULL AS 'NULL'
    written,             \* tracked records written to the open COPY stream
    temp_table,          \* tracked rows committed in the staging relation
    dest,                \* destination column, per tracked key
    timer_expired,       \* flush_interval <= start.elapsed().as_secs()
    collected_row_cnt,
    processed_row_cnt,
    old_progress,
    cb_calls,            \* values passed to the progress callback, in order
    merges,              \* UPDATE statements executed so far
    flush_log,           \* history: the records staged by each committed flush
    stream_ended,        \* history: the sink saw the end of the result stream
    exp_result,          \* the sink thread's result
    faulted,             \* history: a database or runtime call has failed
    n_sent               \* batches the environment has sent (SpecSink)

sinkVars == <<item_count, stream, has_cb, create_column, has_privilege, setup_log,
              received, elapsed_at_check, e_pc, writer_null, written, temp_table,
              dest, timer_expired, collected_row_cnt, processed_row_cnt,
              old_progress, cb_calls, merges, flush_log, stream_ended, exp_result,
              faulted>>

embChan == <<emb_q, emb_tx_open, emb_rx_open>>

VARIABLES
    \* ---- the key-range arithmetic of compress_and_write_vectors
    total_row_cnt,       \* total_row_cnt
    task_count,          \* task_count (0: None)
    task_ranges,         \* task id -> the range computed for it, so far
    num_cores,           \* std::thread::available_parallelism()
    conn_budget,         \* the connection budget min()'ed with num_cores
    limit_start,         \* the current task's range
    limit_end,
    num_connections,     \* worker count (0: not computed yet)
    worker_ranges        \* worker index -> the range it queries, so far

rangeVars == <<total_row_cnt, task_count, task_ranges, num_cores, conn_budget,
               limit_start, limit_end, num_connections, worker_ranges>>

VARIABLES
    \* ---- get_closest_centroid / compress_vectors
    q_in,                \* the input of the function under check: codebook, vector,
                         \* dimensions and splits (SpecQuant); connection limits,
                         \* task count and cores (SpecConnections); the ids and
                         \* the runtime's vectors of one batch (SpecPairing)
    q_out                \* its result for that input

quantVars == <<q_in, q_out>>

VARIABLES
    \* ---- compress_and_write_vectors and its workers (compression.rs 159-339)
    splits,              \* configured split count
    codebook_rows,       \* the codebook table, ORDER BY centroid_id ASC
    compression_task_id, \* Some(id), or NoTask
    null_keys,           \* keys of the data table whose vector is NULL
    c_pc,                \* coordinator position: "start", "workers", "done"
    c_result,            \* what the call returned
    main_progress,       \* the shared AtomicU8
    progress_log,        \* values reported for the job, in order
    w_pc,                \* worker i's position: "idle", "fetched", "written", "done"
    w_result,            \* worker i's result
    w_range,             \* the range worker i queried
    w_rows,              \* the keys worker i holds after dropping NULL vectors
    n_conn_opened,       \* worker connections opened
    n_fetches,           \* worker queries on the data table
    n_staging,           \* staging relations created
    n_merges,            \* worker UPDATE statements executed
    pq_dest,             \* keys whose code is committed in the destination
    wr_total_row_cnt,    \* write_compressed_rows of worker i: rows.len()
    wr_processed_row_cnt, \* its processed_row_cnt
    wr_progress          \* the progress it computed last

compVars == <<splits, codebook_rows, compression_task_id, null_keys, c_pc, c_result,
              main_progress, progress_log, w_pc, w_result, w_range, w_rows,
              n_conn_opened, n_fetches, n_staging, n_merges, pq_dest,
              wr_total_row_cnt, wr_processed_row_cnt, wr_progress>>

VARIABLES
    \* ---- create_embeddings_from_db (mod.rs 455-545) and its other two threads
    src_rows,            \* payload of the source rows the portal yields, by ctid
    batch_size,          \* args.batch_size
    track_progress,      \* estimate_count of producer_worker
    is_canceled,         \* the flag behind the cancel handle
    p_pc,                \* producer position: "start", "poll", "done"
    p_result,
    portal_pos,          \* rows the portal has handed out
    prod_q,              \* batches in flight on the producer -> embedding channel
    prod_tx_open,
    prod_rx_open,
    g_pc,                \* embedding worker position: "start", "recv", "done"
    g_result,
    o_pc,                \* caller position: "producer", "join_*", "done"
    o_result,
    count_ch,            \* the count channel: unsent, sent (with a value) or dropped
    p_fault,             \* history: the producer call that failed, or "none"
    p_log,               \* history: the calls the producer issued before its loop
    rt_log               \* history: the ctids submitted by each runtime.process call

pipeVars == <<src_rows, batch_size, track_progress, is_canceled, p_pc, p_result,
              portal_pos, prod_q, prod_tx_open, prod_rx_open, g_pc, g_result,
              o_pc, o_result, count_ch, p_fault, p_log, rt_log>>

vars == <<sinkVars, embChan, n_sent, rangeVars, quantVars, compVars, pipeVars>>

(***************************************************************************)
(* Bounds of the model.                                                    *)
(***************************************************************************)
MaxBatches == 2          \* batches the environment feeds to the sink
MaxTotalRowCnt == 100    \* rows of the table whose key range is partitioned
MaxTaskCount == 4        \* externally partitioned tasks
MaxCores == 3            \* hardware concurrency
MaxBudget == 4           \* connection budget
MaxCentroids == 3        \* centroids per list in the exhaustive codebooks
MaxComponent == 3        \* largest component of an input vector
MaxRows == 2             \* rows of the data table the workers compress
MaxWorkers == 2          \* cores (and connection budget) of the coordinator
MaxSrcRows == 2          \* rows of the source table of a job
MaxConn == 4             \* max_connections and active connections
MaxInputs == 3           \* texts of one batch submitted to the runtime
MaxThousands == 2        \* rows of one worker, in units of progress_every
MaxSplits == 2           \* configured split count

(***************************************************************************)
(* Program constants.                                                      *)
(***************************************************************************)
flush_interval == 10
min_flush_rows == 50
max_flush_rows == 1000
progress_every == 1000   \* rows between two progress checks of a worker
U8Max == 255
UsizeModulus == 65536    \* stands for 2^64, the modulus of usize arithmetic
F32Max == 1000000000     \* stands for f32::MAX: above every distance of the model

(***************************************************************************)
(* Generic helpers.                                                        *)
(***************************************************************************)
Min(a, b) == IF a < b THEN a ELSE b
Max(a, b) == IF a > b THEN a ELSE b
Last(s) == s[Len(s)]
Range(s) == {s[i] : i \in DOMAIN s}

(***************************************************************************)
(* calculate_progress (mod.rs 24-30).                                      *)
(*                                                                         *)
(* The code computes ((processed as f64 / total as f64) * 100.0) as u8.    *)
(* In binary64 the quotient p/t is the correctly rounded value of the      *)
(* rational p/t, and the product with 100.0 is below the exact integer N   *)
(* = 100*p/t precisely for the N listed in F64RoundsDown (N <= 256; e.g.   *)
(* 29.0/100.0*100.0 = 28.999999999999996).  For every other quotient the   *)
(* truncation equals the integer floor.  `as u8` truncates toward zero and *)
(* saturates at 255.                                                       *)
(***************************************************************************)
F64RoundsDown == {29, 57, 58, 113, 114, 115, 116, 201, 203, 205, 207,
                  226, 228, 230, 232, 251, 253, 255}

F64Percent(processed, total) ==
    LET e == (100 * processed) \div total
    IN  IF (100 * processed) % total = 0 /\ e \in F64RoundsDown THEN e - 1 ELSE e

SaturateU8(x) == IF x < 0 THEN 0 ELSE IF x > U8Max THEN U8Max ELSE x

calculate_progress(total, processed) ==
    IF total <= 0 THEN 0 ELSE SaturateU8(F64Percent(processed, total))

(***************************************************************************)
(* The data the sink handles.  A TransformedRecord is <<key, vector>>; the *)
(* model tracks the records of the keys in Keys and counts the others      *)
(* (`extra`: records of other keys, with non-empty vectors).               *)
(***************************************************************************)
Keys == {1, 2}
Vecs == {<< >>, <<1>>, <<2>>}
Records == Keys \X Vecs
SqlNull == [isnull |-> TRUE, arr |-> << >>]      \* an absent column value
SqlArray(v) == [isnull |-> FALSE, arr |-> v]
OldValue == SqlArray(<<0>>)             \* the column's value before the job
ItemCounts == {0, 1, 2, 100, 2000}
BatchExtras == {0, min_flush_rows - 1, max_flush_rows - 1}
Batches == [recs : {<< >>} \cup {<<r>> : r \in Records}, extra : BatchExtras]
BatchLen(b) == Len(b.recs) + b.extra    \* rows.len()

(***************************************************************************)
(* The bulk-load wire format (mod.rs 304-318) and PostgreSQL's reading of  *)
(* it.  A record's vector field is the token NULL when the vector is       *)
(* empty, {v1,...,vn} otherwise.  COPY ... WITH NULL AS 'NULL' reads the   *)
(* token as an absent value; a COPY without that option (default null      *)
(* string \N) reads it as the text NULL, which is no REAL[] literal, and   *)
(* the COPY fails.                                                         *)
(***************************************************************************)
Encode(vec) == IF Len(vec) > 0 THEN [tok |-> "array", elems |-> vec]
                               ELSE [tok |-> "NULL", elems |-> << >>]

Loadable(field, null_as) == field.tok = "array" \/ null_as

Load(field) == IF field.tok = "array" THEN SqlArray(field.elems) ELSE SqlNull

\* The rows COPY adds to the staging relation for the records written.
Loaded(recs) == {<<r[1], Load(Encode(r[2]))>> : r \in recs}

CopyLoads(recs, null_as) == \A r \in recs : Loadable(Encode(r[2]), null_as)

(***************************************************************************)
(* The merge statement (mod.rs 293): UPDATE dest SET col = src.col FROM    *)
(* staging src WHERE src.id = dest.ctid.  A destination row that joins     *)
(* several staging rows is updated from one of them, which one is not      *)
(* determined.                                                             *)
(***************************************************************************)
DestValues == {OldValue, SqlNull} \cup {SqlArray(v) : v \in Vecs \ {<< >>}}

MergeResults(d, table) ==
    {f \in [DOMAIN d -> DestValues] :
        \A k \in DOMAIN d :
            IF \E row \in table : row[1] = k
            THEN \E row \in table : row[1] = k /\ f[k] = row[2]
            ELSE f[k] = d[k]}

\* Mutant of Truncated: the flush leaves the staged rows in place.
TruncatedKept(table) == table

\* The staging relation after a mid-stream flush: TRUNCATE TABLE (mod.rs 350).
Truncated(table) == {}

\* Mutant of ShouldFlush: only the upper threshold triggers a flush.
ShouldFlushUpperOnly(collected, expired) == collected >= max_flush_rows

\* The flush condition of streaming mode (mod.rs 338-340).
ShouldFlush(collected, expired) ==
    \/ collected >= max_flush_rows
    \/ (expired /\ collected >= min_flush_rows)

\* Mutant of RolledBack: the flushes were part of the transaction that fails.
RolledBackWithFlushes(d) == [k \in DOMAIN d |-> OldValue]

\* The destination after an error return has rolled back the open
\* transaction: every flush before it was committed on its own (mod.rs
\* 346-353), so what the flushes merged stays.
RolledBack(d) == d

\* The result of the wire format option of a reopened COPY stream (mod.rs 355).
ReopenedNullAs == FALSE

(***************************************************************************)
(* The parts of the state a specification does not use stay as they are.   *)
(***************************************************************************)
RangesIdle ==
    /\ total_row_cnt = 0
    /\ task_count = 0
    /\ task_ranges = << >>
    /\ num_cores = 1
    /\ conn_budget = 0
    /\ limit_start = 0
    /\ limit_end = 0
    /\ num_connections = 0
    /\ worker_ranges = << >>

SinkIdle ==
    /\ item_count = 0
    /\ stream = FALSE
    /\ has_cb = FALSE
    /\ create_column = FALSE
    /\ has_privilege = FALSE
    /\ setup_log = << >>
    /\ received = {}
    /\ elapsed_at_check = FALSE
    /\ emb_q = << >>
    /\ emb_tx_open = FALSE
    /\ emb_rx_open = FALSE
    /\ e_pc = "idle"
    /\ writer_null = FALSE
    /\ written = {}
    /\ temp_table = {}
    /\ dest = [k \in {} |-> 0]
    /\ timer_expired = FALSE
    /\ collected_row_cnt = 0
    /\ processed_row_cnt = 0
    /\ old_progress = 0
    /\ cb_calls = << >>
    /\ merges = 0
    /\ flush_log = << >>
    /\ stream_ended = FALSE
    /\ exp_result = [kind |-> "none"]
    /\ faulted = FALSE
    /\ n_sent = 0

PipeIdle ==
    /\ src_rows = << >>
    /\ batch_size = 0
    /\ track_progress = FALSE
    /\ is_canceled = FALSE
    /\ p_pc = "idle"
    /\ p_result = "none"
    /\ portal_pos = 0
    /\ prod_q = << >>
    /\ prod_tx_open = FALSE
    /\ prod_rx_open = FALSE
    /\ g_pc = "idle"
    /\ g_result = "none"
    /\ o_pc = "idle"
    /\ o_result = [kind |-> "none"]
    /\ count_ch = [state |-> "unsent", value |-> 0]
    /\ p_fault = "none"
    /\ p_log = << >>
    /\ rt_log = << >>

CompIdle ==
    /\ splits = 0
    /\ codebook_rows = << >>
    /\ compression_task_id = 0
    /\ null_keys = {}
    /\ c_pc = "idle"
    /\ c_result = [kind |-> "none", from |-> 0]
    /\ main_progress = 0
    /\ progress_log = << >>
    /\ w_pc = << >>
    /\ w_result = << >>
    /\ w_range = << >>
    /\ w_rows = << >>
    /\ n_conn_opened = 0
    /\ n_fetches = 0
    /\ n_staging = 0
    /\ n_merges = 0
    /\ pq_dest = {}
    /\ wr_total_row_cnt = << >>
    /\ wr_processed_row_cnt = << >>
    /\ wr_progress = << >>

QuantIdle ==
    /\ q_in = [codebook |-> << >>, vec |-> << >>, vector_dim |-> 0,
               subvector_dim |-> 0, splits |-> 0]
    /\ q_out = [kind |-> "none", code |-> << >>]

(***************************************************************************)
(* db_exporter_worker.                                                     *)
(***************************************************************************)
SinkInit ==
    /\ item_count \in ItemCounts
    /\ stream \in BOOLEAN
    /\ has_cb \in BOOLEAN
    /\ create_column \in BOOLEAN
    /\ has_privilege \in BOOLEAN
    /\ setup_log = << >>
    /\ received = {}
    /\ elapsed_at_check = FALSE
    /\ emb_q = << >>
    /\ emb_tx_open = TRUE
    /\ emb_rx_open = TRUE
    /\ e_pc = "setup"
    /\ writer_null = FALSE
    /\ written = {}
    /\ temp_table = {}
    /\ dest = [k \in Keys |-> OldValue]
    /\ timer_expired = FALSE
    /\ collected_row_cnt = 0
    /\ processed_row_cnt = 0
    /\ old_progress = 0
    /\ cb_calls = << >>
    /\ merges = 0
    /\ flush_log = << >>
    /\ stream_ended = FALSE
    /\ exp_result = [kind |-> "none"]
    /\ faulted = FALSE

\* An error return (`?` or bail!): the thread ends, its Receiver is dropped,
\* the open transaction is rolled back.
ExpFail ==
    /\ e_pc' = "done"
    /\ exp_result' = [kind |-> "err"]
    /\ emb_rx_open' = FALSE
    /\ emb_q' = << >>

\* mod.rs 257-292: the calls of the sink before its receive loop, in the
\* order of the code.
SetupCalls(cc) ==
    <<"connect", "transaction">>
    \o (IF cc THEN <<"add_column">> ELSE << >>)
    \o <<"privilege_check", "create_staging", "commit", "copy_in">>

IndexOf(seq, x) == CHOOSE i \in DOMAIN seq : seq[i] = x /\ \A j \in 1..(i - 1) : seq[j] # x

UpTo(seq, x) == SubSeq(seq, 1, IndexOf(seq, x))

\* The calls of the set-up one of which may fail in a run of the model.
SetupFaults == {"connect", "privilege_check", "create_staging"}

\* mod.rs 257-301: connect, optional ADD COLUMN, privilege check, CREATE
\* TEMPORARY TABLE, commit, open the first COPY stream.  `fault` names the
\* call that fails, if any; the check finds no row when the privilege is
\* missing (bail! at 276).
ExpSetup ==
    /\ e_pc = "setup"
    /\ \E fault \in {"none"} \cup SetupFaults :
        LET calls   == SetupCalls(create_column)
            check   == IndexOf(calls, "privilege_check")
            failing == IF fault \in Range(calls) THEN IndexOf(calls, fault)
                                              ELSE Len(calls) + 1
        IN  IF failing <= check
            THEN /\ ExpFail
                 /\ faulted' = TRUE
                 /\ setup_log' = SubSeq(calls, 1, failing)
                 /\ UNCHANGED writer_null
            ELSE IF ~has_privilege
            THEN /\ fault = "none"
                 /\ ExpFail
                 /\ setup_log' = UpTo(calls, "privilege_check")
                 /\ UNCHANGED <<writer_null, faulted>>
            ELSE IF fault # "none"
            THEN /\ ExpFail
                 /\ faulted' = TRUE
                 /\ setup_log' = SubSeq(calls, 1, failing)
                 /\ UNCHANGED writer_null
            ELSE /\ e_pc' = "recv"
                 /\ writer_null' = TRUE
                 /\ setup_log' = calls
                 /\ UNCHANGED <<exp_result, emb_rx_open, emb_q, faulted>>
    /\ UNCHANGED <<item_count, stream, has_cb, create_column, has_privilege, received,
                   elapsed_at_check, emb_tx_open, written, temp_table, dest,
                   timer_expired, collected_row_cnt, processed_row_cnt, old_progress,
                   cb_calls, merges, flush_log, stream_ended>>

\* The values reported by one `if progress > old_progress` block (mod.rs 323-330).
Reported(calls, progress) == IF has_cb THEN Append(calls, progress) ELSE calls

\* mod.rs 303-358: one iteration of the receive loop.  `tick` says whether the
\* flush interval ran out while the sink waited for this batch; `fault` names
\* the database call that fails in this iteration, if any: a write to the COPY
\* stream (305-316), or a statement of the flush (345-355).
ExpRecv ==
    /\ e_pc = "recv"
    /\ emb_q # << >>
    /\ \E tick \in BOOLEAN, fault \in {"none", "write", "flush"} :
        LET rows      == Head(emb_q)
            wr        == written \cup Range(rows.recs)
            collected == collected_row_cnt + BatchLen(rows)
            processed == processed_row_cnt + BatchLen(rows)
            progress  == calculate_progress(item_count, processed)
            expired   == timer_expired \/ tick
            flush     == stream /\ ShouldFlush(collected, expired)
        IN  /\ faulted' = (faulted \/ fault # "none")
            /\ received' = received \cup Range(rows.recs)
            /\ IF fault = "write"
               THEN /\ BatchLen(rows) > 0
                    /\ ExpFail
                    /\ dest' = RolledBack(dest)
                    /\ UNCHANGED <<writer_null, written, temp_table, merges,
                                   flush_log, collected_row_cnt, timer_expired,
                                   processed_row_cnt, old_progress, cb_calls,
                                   elapsed_at_check>>
               ELSE
               /\ processed_row_cnt' = processed
               /\ elapsed_at_check' = (stream /\ expired)
               /\ IF progress > old_progress
                  THEN /\ old_progress' = progress
                       /\ cb_calls' = Reported(cb_calls, progress)
                  ELSE UNCHANGED <<old_progress, cb_calls>>
               /\ IF ~flush
                  THEN /\ fault = "none"
                       /\ written' = wr
                       /\ collected_row_cnt' = collected
                       /\ timer_expired' = (stream /\ expired)
                       /\ emb_q' = Tail(emb_q)
                       /\ UNCHANGED <<e_pc, exp_result, emb_rx_open, writer_null,
                                      temp_table, dest, merges, flush_log>>
                  ELSE IF fault = "none" /\ CopyLoads(wr, writer_null)
                  THEN \* writer.finish, UPDATE; TRUNCATE, commit, reopen the stream
                       /\ \E d \in MergeResults(dest, temp_table \cup Loaded(wr)) :
                             dest' = d
                       /\ temp_table' = Truncated(temp_table \cup Loaded(wr))
                       /\ merges' = merges + 1
                       /\ flush_log' = Append(flush_log, Loaded(wr))
                       /\ writer_null' = ReopenedNullAs
                       /\ written' = {}
                       /\ collected_row_cnt' = 0
                       /\ timer_expired' = FALSE
                       /\ emb_q' = Tail(emb_q)
                       /\ UNCHANGED <<e_pc, exp_result, emb_rx_open>>
                  ELSE /\ ExpFail
                       /\ dest' = RolledBack(dest)
                       /\ UNCHANGED <<writer_null, written, temp_table, merges,
                                      flush_log, collected_row_cnt, timer_expired>>
    /\ UNCHANGED <<item_count, stream, has_cb, create_column, has_privilege, setup_log,
                   emb_tx_open, stream_ended>>

\* mod.rs 366-386: rx.recv() failed (every Sender is gone and the channel is
\* empty): report 100, then the final merge.
ExpFinish ==
    /\ e_pc = "recv"
    /\ emb_q = << >>
    /\ ~emb_tx_open
    /\ stream_ended' = TRUE
    /\ IF old_progress # 100
       THEN cb_calls' = Reported(cb_calls, 100)
       ELSE UNCHANGED cb_calls
    /\ e_pc' = "done"
    /\ emb_rx_open' = FALSE
    /\ IF processed_row_cnt = 0
       THEN /\ exp_result' = [kind |-> "ok", rows |-> processed_row_cnt]
            /\ UNCHANGED <<temp_table, dest, merges, flush_log, faulted>>
       ELSE \E db_ok \in BOOLEAN :
            /\ faulted' = (faulted \/ ~db_ok)
            /\ IF db_ok /\ CopyLoads(written, writer_null)
               THEN /\ \E d \in MergeResults(dest, temp_table \cup Loaded(written)) :
                          dest' = d
                    /\ temp_table' = temp_table \cup Loaded(written)
                    /\ merges' = merges + 1
                    /\ flush_log' = Append(flush_log, Loaded(written))
                    /\ exp_result' = [kind |-> "ok", rows |-> processed_row_cnt]
               ELSE /\ exp_result' = [kind |-> "err"]
                    /\ dest' = RolledBack(dest)
                    /\ UNCHANGED <<temp_table, merges, flush_log>>
    /\ UNCHANGED <<item_count, stream, has_cb, create_column, has_privilege, setup_log,
                   received, elapsed_at_check, emb_q, emb_tx_open, writer_null,
                   written, timer_expired, collected_row_cnt, processed_row_cnt,
                   old_progress>>

(***************************************************************************)
(* SpecSink: the sink fed by an environment that sends any sequence of at  *)
(* most MaxBatches batches and then drops the Sender.                      *)
(***************************************************************************)
EnvSend ==
    /\ emb_tx_open
    /\ emb_rx_open
    /\ emb_q = << >>
    /\ n_sent < MaxBatches
    /\ n_sent' = n_sent + 1
    /\ \E b \in Batches : emb_q' = Append(emb_q, b)
    /\ UNCHANGED <<sinkVars, emb_tx_open, emb_rx_open>>

EnvClose ==
    /\ emb_tx_open
    /\ emb_q = << >>
    /\ emb_tx_open' = FALSE
    /\ UNCHANGED <<sinkVars, emb_q, emb_rx_open, n_sent>>

InitSink == SinkInit /\ n_sent = 0 /\ RangesIdle /\ QuantIdle /\ CompIdle /\ PipeIdle

NextSink ==
    \/ ExpSetup /\ UNCHANGED <<n_sent, rangeVars, quantVars, compVars, pipeVars>>
    \/ ExpRecv /\ UNCHANGED <<n_sent, rangeVars, quantVars, compVars, pipeVars>>
    \/ ExpFinish /\ UNCHANGED <<n_sent, rangeVars, quantVars, compVars, pipeVars>>
    \/ EnvSend /\ UNCHANGED <<rangeVars, quantVars, compVars, pipeVars>>
    \/ EnvClose /\ UNCHANGED <<rangeVars, quantVars, compVars, pipeVars>>

SpecSink == InitSink /\ [][NextSink]_vars

(***************************************************************************)
(* Claims about db_exporter_worker, checked under SpecSink.                *)
(***************************************************************************)
StrictlyIncreasing(s) == \A i, j \in DOMAIN s : i < j => s[i] < s[j]

\* The most recent committed flush that staged a row for key k (0: none).
LastFlushOf(k) ==
    LET idx == {i \in DOMAIN flush_log : \E row \in flush_log[i] : row[1] = k}
    IN  IF idx = {} THEN 0 ELSE CHOOSE i \in idx : \A j \in idx : j <= i

\* C1: over one job the values passed to the progress callback are strictly
\* increasing, and once the result stream has ended the last value passed
\* is 100.
C1_ProgressStrictlyIncreasingEndsAt100 ==
    /\ StrictlyIncreasing(cb_calls)
    /\ (stream_ended /\ has_cb) => (cb_calls # << >> /\ Last(cb_calls) = 100)

\* C2: every value passed to the progress callback lies in [0,100], also
\* when more rows are processed than the estimated total.
C2_ProgressWithin0And100 ==
    \A i \in DOMAIN cb_calls : cb_calls[i] >= 0 /\ cb_calls[i] <= 100

\* C3: the staging relation is empty after every mid-stream flush, and after
\* the job has ended the destination holds, for each key K, a result staged
\* for K by the most recent committed flush that included K (its value from
\* before the job when no flush included K).
C3_DestinationHoldsLatestFlush ==
    /\ e_pc = "recv" => temp_table = {}
    /\ e_pc = "done" =>
          \A k \in Keys :
              IF LastFlushOf(k) = 0
              THEN dest[k] = OldValue
              ELSE \E row \in flush_log[LastFlushOf(k)] :
                       row[1] = k /\ row[2] = dest[k]

\* Witness of C3: a job that ended successfully after two flushes which staged
\* different results for the same key.
C3_Witness ==
    /\ e_pc = "done"
    /\ exp_result.kind = "ok"
    /\ Len(flush_log) = 2
    /\ \E k \in Keys :
          /\ flush_log[1] = {<<k, SqlArray(<<1>>)>>}
          /\ flush_log[2] = {<<k, SqlArray(<<2>>)>>}
          /\ dest[k] = SqlArray(<<2>>)


(***************************************************************************)
(* Claims about the sink's set-up and its streaming flushes (SpecSink).    *)
(***************************************************************************)
\* The calls of the set-up that modify the database.
WriteCalls == {"add_column", "create_staging", "copy_in"}

CheckedAt(i) == \E j \in 1..(i - 1) : setup_log[j] = "privilege_check"

\* C11: the privilege check runs once and before any write: no statement
\* that modifies the database (ADD COLUMN, the staging relation, the bulk
\* load, a merge) is issued before the check has succeeded, and without the
\* privilege the worker fails having issued none of them.
C11_PrivilegeCheckBeforeAnyWrite ==
    /\ \A i \in DOMAIN setup_log :
          setup_log[i] \in WriteCalls => (has_privilege /\ CheckedAt(i))
    /\ Cardinality({i \in DOMAIN setup_log : setup_log[i] = "privilege_check"}) <= 1
    /\ (merges > 0 \/ written # {}) => (has_privilege /\ CheckedAt(Len(setup_log) + 1))
    /\ (e_pc = "done" /\ ~has_privilege /\ CheckedAt(Len(setup_log) + 1)) =>
          exp_result.kind = "err"

\* What does hold: the staging relation, the bulk load and the merges come
\* after a successful check; only ADD COLUMN precedes it.
C11_StagingAndMergeAfterCheck ==
    /\ \A i \in DOMAIN setup_log :
          setup_log[i] \in WriteCalls \ {"add_column"} => (has_privilege /\ CheckedAt(i))
    /\ (merges > 0 \/ written # {}) => (has_privilege /\ CheckedAt(Len(setup_log) + 1))
    /\ (e_pc = "done" /\ ~has_privilege /\ faulted = FALSE) => exp_result.kind = "err"

\* One iteration of the receive loop that leaves the sink in its loop.
RecvStep == e_pc = "recv" /\ emb_q # << >> /\ e_pc' = "recv" /\ emb_q' = Tail(emb_q)

Buffered == collected_row_cnt + BatchLen(Head(emb_q))

Flushed == merges' = merges + 1

Merged == UNION {flush_log[i] : i \in DOMAIN flush_log}

InRange(k, r) == r.start <= k /\ k < r.end

\* Mutant of TaskRange: the last task gets a chunk like the others.
TaskRangeNoRemainder(total, tcount, task_id) ==
    LET chunk_per_task == total \div tcount
    IN  [start |-> chunk_per_task * task_id,
         end   |-> chunk_per_task * task_id + chunk_per_task]

\* compression.rs 180-194: the range of task `task_id` out of `tcount`.
TaskRange(total, tcount, task_id) ==
    LET chunk_per_task == total \div tcount
        start == chunk_per_task * task_id
    IN  [start |-> start,
         end   |-> IF task_id = tcount - 1 THEN total ELSE start + chunk_per_task]

\* compression.rs 252/257 and 261: min(num_cores, budget), floored at 1.
NumConnections(cores, budget) == Max(Min(cores, budget), 1)

\* compression.rs 244, 262, 272-273: the range worker i queries.
WorkerRange(i, lstart, lend, nconn, ncores) ==
    LET range_row_count == lend - lstart
        chunk_count == range_row_count \div nconn
        range_start == lstart + (i * chunk_count)
    IN  [start |-> range_start,
         end   |-> IF i = ncores - 1 THEN lend + 1 ELSE range_start + chunk_count]

RangesInit ==
    /\ total_row_cnt \in 0..MaxTotalRowCnt
    /\ task_count \in 1..MaxTaskCount
    /\ num_cores \in 1..MaxCores
    /\ conn_budget \in 0..MaxBudget
    /\ task_ranges = << >>
    /\ limit_start = 0
    /\ limit_end = 0
    /\ num_connections = 0
    /\ worker_ranges = << >>

\* The range of the next task id, 0 .. task_count - 1.
ComputeTaskRange ==
    /\ Len(task_ranges) < task_count
    /\ task_ranges' = Append(task_ranges,
                             TaskRange(total_row_cnt, task_count, Len(task_ranges)))
    /\ UNCHANGED <<total_row_cnt, task_count, num_cores, conn_budget, limit_start,
                   limit_end, num_connections, worker_ranges>>

\* One task goes on: its range becomes [limit_start, limit_end) and its worker
\* count is fixed (compression.rs 244-262).
SelectTask ==
    /\ Len(task_ranges) = task_count
    /\ num_connections = 0
    /\ \E t \in DOMAIN task_ranges :
          /\ limit_start' = task_ranges[t].start
          /\ limit_end' = task_ranges[t].end
    /\ num_connections' = NumConnections(num_cores, conn_budget)
    /\ UNCHANGED <<total_row_cnt, task_count, num_cores, conn_budget, task_ranges,
                   worker_ranges>>

\* The range of the next worker, 0 .. num_connections - 1.
ComputeWorkerRange ==
    /\ num_connections > 0
    /\ Len(worker_ranges) < num_connections
    /\ worker_ranges' = Append(worker_ranges,
                               WorkerRange(Len(worker_ranges), limit_start, limit_end,
                                           num_connections, num_cores))
    /\ UNCHANGED <<total_row_cnt, task_count, num_cores, conn_budget, task_ranges,
                   limit_start, limit_end, num_connections>>

InitRanges == RangesInit /\ SinkIdle /\ QuantIdle /\ CompIdle /\ PipeIdle

NextRanges ==
    \/ ComputeTaskRange /\ UNCHANGED <<sinkVars, embChan, n_sent, quantVars, compVars, pipeVars>>
    \/ SelectTask /\ UNCHANGED <<sinkVars, embChan, n_sent, quantVars, compVars, pipeVars>>
    \/ ComputeWorkerRange /\ UNCHANGED <<sinkVars, embChan, n_sent, quantVars, compVars, pipeVars>>

SpecRanges == InitRanges /\ [][NextRanges]_vars

(***************************************************************************)
(* Claims about the key ranges, checked under SpecRanges.                  *)
(***************************************************************************)
\* The ranges of the sequence rs cover the keys lo .. hi-1 exactly once and
\* no key outside of them (keys are looked at up to `top`).
CoversExactlyOnce(rs, lo, hi, top) ==
    \A k \in 0..top :
        Cardinality({i \in DOMAIN rs : InRange(k, rs[i])}) =
            (IF lo <= k /\ k < hi THEN 1 ELSE 0)

Contiguous(rs) ==
    \A i \in DOMAIN rs :
        /\ rs[i].start <= rs[i].end
        /\ i < Len(rs) => rs[i].end = rs[i + 1].start

\* C4: the task ranges of task ids 0 .. task_count-1 cover [0, total_row_cnt)
\* exactly once, without gap or overlap, and the last task's range takes the
\* remainder of the division (3 tasks over 100 rows: [0,33) [33,66) [66,100)).
C4_TaskRangesPartition ==
    Len(task_ranges) = task_count =>
        /\ CoversExactlyOnce(task_ranges, 0, total_row_cnt, total_row_cnt + 1)
        /\ Contiguous(task_ranges)
        /\ \A t \in DOMAIN task_ranges :
              task_ranges[t].end - task_ranges[t].start =
                  (total_row_cnt \div task_count) +
                  (IF t = task_count THEN total_row_cnt % task_count ELSE 0)
        /\ (task_count = 3 /\ total_row_cnt = 100) =>
              task_ranges = << [start |-> 0, end |-> 33], [start |-> 33, end |-> 66],
                               [start |-> 66, end |-> 100] >>

\* Witness of C4: scenario C, all three ranges computed.
C4_Witness ==
    /\ task_count = 3
    /\ total_row_cnt = 100
    /\ Len(task_ranges) = 3
    /\ task_ranges[3] = [start |-> 66, end |-> 100]

\* C5: inside one task the workers' ranges are contiguous, pairwise disjoint
\* half-open intervals whose union is exactly [limit_start, limit_end).
C5_WorkerRangesPartition ==
    (num_connections > 0 /\ Len(worker_ranges) = num_connections) =>
        /\ CoversExactlyOnce(worker_ranges, limit_start, limit_end, limit_end + 1)
        /\ Contiguous(worker_ranges)


(***************************************************************************)
(* get_closest_centroid and compress_vectors (compression.rs 16-78).       *)
(* Vectors have small natural components, so every f32 operation of the    *)
(* code is exact on them.                                                  *)
(***************************************************************************)
RECURSIVE SumSq(_, _, _)
SumSq(a, b, n) ==
    IF n = 0 THEN 0 ELSE SumSq(a, b, n - 1) + (a[n] - b[n]) * (a[n] - b[n])

\* compression.rs 16-21: zip stops at the shorter of the two slices.
l2sq_dist(a, b) == SumSq(a, b, Min(Len(a), Len(b)))

\* Mutant of ClosestIndex: the index counted from 1.
ClosestIndexFromOne(idx) == (idx + 1) % (U8Max + 1)

\* compression.rs 32: `idx as u8` keeps the low eight bits of the index.
ClosestIndex(idx) == idx % (U8Max + 1)

\* compression.rs 29-33: the loop body for the centroid at position idx
\* (0-based), on the loop's two variables.
ClosestStep(centroids, subvector, idx, st) ==
    LET distance == l2sq_dist(centroids[idx + 1], subvector)
    IN  IF distance < st.closest_distance
        THEN [closest_distance |-> distance, closest_index |-> ClosestIndex(idx)]
        ELSE st

\* compression.rs 28-34: the iterations lo .. hi of the loop, in order (split
\* in halves to keep the evaluation shallow).
RECURSIVE ClosestLoop(_, _, _, _, _)
ClosestLoop(centroids, subvector, lo, hi, st) ==
    IF lo > hi THEN st
    ELSE IF lo = hi THEN ClosestStep(centroids, subvector, lo, st)
    ELSE LET mid == (lo + hi) \div 2
             first == ClosestLoop(centroids, subvector, lo, mid, st)
         IN  \* the test evaluates the first half before the second starts
             IF first.closest_index >= 0
             THEN ClosestLoop(centroids, subvector, mid + 1, hi, first)
             ELSE first

\* compression.rs 24-37.
get_closest_centroid(centroids, subvector) ==
    ClosestLoop(centroids, subvector, 0, Len(centroids) - 1,
                [closest_distance |-> F32Max, closest_index |-> 0]).closest_index

\* compression.rs 64-66: the bounds of segment i and the slice taken.
SegStart(i, subvector_dim) == i * subvector_dim
SegEnd(i, subvector_dim, vector_dim) ==
    Min(SegStart(i, subvector_dim) + subvector_dim, vector_dim)
Slice(vec, start_index, end_index) == SubSeq(vec, start_index + 1, end_index)

\* compression.rs 60-68 for one row: a panic when a segment has no codebook
\* entry (unwrap of map.get) or the slice bounds are out of order or beyond
\* the vector; the code vector of `splits` bytes otherwise.
compress_vectors(vec, vector_dim, subvector_dim, nsplits, codebook) ==
    IF \E i \in 0..(nsplits - 1) :
          \/ i \notin DOMAIN codebook
          \/ SegStart(i, subvector_dim) > SegEnd(i, subvector_dim, vector_dim)
          \/ SegEnd(i, subvector_dim, vector_dim) > Len(vec)
    THEN [kind |-> "panic", code |-> << >>]
    ELSE [kind |-> "ok",
          code |-> [j \in 1..nsplits |->
                      get_closest_centroid(
                          codebook[j - 1],
                          Slice(vec, SegStart(j - 1, subvector_dim),
                                SegEnd(j - 1, subvector_dim, vector_dim)))]]

(***************************************************************************)
(* SpecQuant: compress_vectors applied to inputs drawn from three families *)
(* of codebooks.                                                           *)
(***************************************************************************)
SeqsUpTo(S, n) == UNION {[1..m -> S] : m \in 1..n}

\* Every codebook of 1 or 2 segments whose lists hold up to MaxCentroids
\* centroids of dimension 1, with every vector of that many components.
CentroidValues == {<<0>>, <<1>>, <<3>>}
SmallInputs ==
    {[codebook |-> cb, vec |-> v, vector_dim |-> Len(v), subvector_dim |-> 1,
      splits |-> Len(v)] :
        cb \in [{0} -> SeqsUpTo(CentroidValues, MaxCentroids)],
        v \in [1..1 -> 0..MaxComponent]}
    \cup
    {[codebook |-> cb, vec |-> v, vector_dim |-> Len(v), subvector_dim |-> 1,
      splits |-> Len(v)] :
        cb \in [{0, 1} -> SeqsUpTo(CentroidValues, 2)],
        v \in [1..2 -> 0..MaxComponent]}

\* Scenario B: 2 segments of 4 centroids of dimension 4, vectors of dimension 8.
ScenarioBCodebook ==
    [i \in {0, 1} |->
        IF i = 0
        THEN << <<0,0,0,0>>, <<1,1,1,1>>, <<0,0,1,1>>, <<1,1,0,0>> >>
        ELSE << <<1,1,1,1>>, <<0,1,0,1>>, <<0,1,0,1>>, <<0,0,0,0>> >>]
ScenarioBInputs ==
    {[codebook |-> ScenarioBCodebook, vec |-> v, vector_dim |-> 8,
      subvector_dim |-> 4, splits |-> 2] : v \in [1..8 -> {0, 1}]}

\* Lists around the 256 indices a byte can hold: centroid k is <<k>>.
WideCounts == {U8Max + 1, U8Max + 2, U8Max + 45}
WideInputs ==
    {[codebook |-> [i \in {0} |-> [k \in 1..n |-> <<k - 1>>]], vec |-> <<x>>,
      vector_dim |-> 1, subvector_dim |-> 1, splits |-> 1] :
        n \in WideCounts, x \in {0, U8Max, U8Max + 1, U8Max + 44}}

QuantInputs == SmallInputs \cup ScenarioBInputs \cup WideInputs

QuantInit ==
    /\ q_in \in QuantInputs
    /\ q_out = [kind |-> "none", code |-> << >>]

Compress ==
    /\ q_out.kind = "none"
    /\ q_out' = compress_vectors(q_in.vec, q_in.vector_dim, q_in.subvector_dim,
                                 q_in.splits, q_in.codebook)
    /\ UNCHANGED q_in

InitQuant == QuantInit /\ SinkIdle /\ RangesIdle /\ CompIdle /\ PipeIdle

NextQuant ==
    \/ Compress /\ UNCHANGED <<sinkVars, embChan, n_sent, rangeVars, compVars, pipeVars>>

SpecQuant == InitQuant /\ [][NextQuant]_vars

(***************************************************************************)
(* Claims about the quantizer, checked under SpecQuant.                    *)
(***************************************************************************)
\* The centroids and the sub-vector of segment i (0-based) of the input.
SegCentroids(i) == q_in.codebook[i]
SegSubvector(i) ==
    Slice(q_in.vec, SegStart(i, q_in.subvector_dim),
          SegEnd(i, q_in.subvector_dim, q_in.vector_dim))

\* C6: the index returned for a sub-vector and a non-empty centroid list is
\* that of a centroid at minimum squared distance, and the lowest such index.
C6_ClosestCentroidIsFirstMinimum ==
    q_out.kind = "ok" =>
        \A i \in 0..(q_in.splits - 1) :
            LET cs == SegCentroids(i)
                sv == SegSubvector(i)
                j  == q_out.code[i + 1]
            IN  /\ j + 1 \in DOMAIN cs
                /\ \A m \in DOMAIN cs : l2sq_dist(cs[j + 1], sv) <= l2sq_dist(cs[m], sv)
                /\ \A m \in DOMAIN cs :
                       l2sq_dist(cs[m], sv) = l2sq_dist(cs[j + 1], sv) => j + 1 <= m

\* What does hold of get_closest_centroid: C6 for lists of at most 256 centroids.
C6_HoldsUpTo256Centroids ==
    (\A i \in DOMAIN q_in.codebook : Len(q_in.codebook[i]) <= U8Max + 1) =>
        C6_ClosestCentroidIsFirstMinimum

\* C7: the code vector has as many bytes as there are splits and each byte
\* is below the number of centroids of its segment's list, for every
\* centroid count, lists of more than 256 centroids included.
C7_CodeLengthAndByteRange ==
    q_out.kind = "ok" =>
        /\ Len(q_out.code) = q_in.splits
        /\ \A i \in 1..Len(q_out.code) :
              /\ q_out.code[i] >= 0
              /\ q_out.code[i] <= U8Max
              /\ q_out.code[i] < Len(q_in.codebook[i - 1])
        /\ q_in \in ScenarioBInputs =>
              (Len(q_out.code) = 2 /\ \A i \in 1..2 : q_out.code[i] \in 0..3)

\* Witness of C7: a list of more than 256 centroids whose nearest centroid
\* has an index that does not fit a byte, compressed.
C7_Witness ==
    /\ q_out.kind = "ok"
    /\ Len(q_in.codebook[0]) > U8Max + 1
    /\ q_in.vec = <<U8Max + 44>>
    /\ q_out.code = <<43>>

\* Scenario B compressed: the second segment's nearest centroids tie.
C7_WitnessScenarioB ==
    /\ q_out.kind = "ok"
    /\ q_in \in ScenarioBInputs
    /\ q_in.vec = <<1,1,0,0,0,1,0,1>>
    /\ q_out.code = <<3, 1>>


(***************************************************************************)
(* compress_and_write_vectors (compression.rs 159-339) with its workers.   *)
(* The data table holds the keys 0 .. total_row_cnt-1; the vectors are not *)
(* looked at here (SpecQuant does), only whether a row's vector is NULL.   *)
(***************************************************************************)
NoTask == -1                            \* compression_task_id is None
Coordinator == -1                       \* an error of the coordinator's own calls

CodebookRow(seg, cen) == [subvector_id |-> seg, centroid_id |-> cen]

\* Codebook tables: empty, complete ones, and ones with a missing segment,
\* a segment id outside 0..splits-1 or a centroid id that leaves a gap.
CodebookChoices ==
    { << >>,
      << CodebookRow(0, 0) >>,
      << CodebookRow(0, 0), CodebookRow(1, 0) >>,
      << CodebookRow(0, 0), CodebookRow(0, 1) >>,
      << CodebookRow(0, 0), CodebookRow(1, 0), CodebookRow(0, 1), CodebookRow(1, 1) >>,
      << CodebookRow(0, 1) >>,
      << CodebookRow(1, 0) >>,
      << CodebookRow(0, 0), CodebookRow(2, 0) >> }

TaskCounts == {0, 1, 2}                 \* task_count: None (0), Some(1), Some(2)
NullKeySets == {{}, {0}, 0..MaxRows}

MapPut(map, k, v) == [x \in (DOMAIN map) \cup {k} |-> IF x = k THEN v ELSE map[x]]

\* Vec::insert(index, element); the caller has checked index <= len.
InsertAt(list, index, x) ==
    SubSeq(list, 1, index) \o <<x>> \o SubSeq(list, index + 1, Len(list))

\* compression.rs 219-227: the codebook map built row by row.  Vec::insert
\* panics when the centroid id is beyond the list's length.
RECURSIVE BuildHashmap(_, _)
BuildHashmap(rows, map) ==
    IF rows = << >>
    THEN [kind |-> "ok", map |-> map]
    ELSE LET row  == Head(rows)
             list == IF row.subvector_id \in DOMAIN map
                     THEN map[row.subvector_id] ELSE << >>
         IN  IF row.centroid_id > Len(list)
             THEN [kind |-> "panic", map |-> map]
             ELSE BuildHashmap(Tail(rows),
                               MapPut(map, row.subvector_id,
                                      InsertAt(list, row.centroid_id, row.centroid_id)))

codebooks_hashmap(rows) == BuildHashmap(rows, << >>)

DistinctSegments(rows) == {rows[i].subvector_id : i \in DOMAIN rows}

\* compression.rs 206-234: what loading and validating the codebook gives.
\* `codebook_rows.len() / splits` (line 213) panics when splits is 0.
CodebookCheck(rows, nsplits) ==
    IF Len(rows) = 0 THEN "empty"
    ELSE IF nsplits = 0 THEN "panic"
    ELSE IF codebooks_hashmap(rows).kind = "panic" THEN "panic"
    ELSE IF Cardinality(DOMAIN codebooks_hashmap(rows).map) # nsplits THEN "incomplete"
    ELSE "ok"

Workers == 0..(num_connections - 1)

\* Mutant of FanInReady: the results are consumed as soon as one is an error.
FanInOnFirstError ==
    \/ \A i \in Workers : w_pc[i] = "done"
    \/ \E i \in Workers : w_result[i] = "err"

\* compression.rs 267-330: collect() returns once every worker has returned.
FanInReady == \A i \in Workers : w_pc[i] = "done"

\* compression.rs 332-334: `result?` over the results in worker order.
FirstError(results) ==
    CHOOSE i \in DOMAIN results :
        results[i] = "err" /\ \A j \in DOMAIN results : results[j] = "err" => i <= j

CompInit ==
    /\ splits \in 0..MaxSplits
    /\ codebook_rows \in CodebookChoices
    /\ total_row_cnt \in 0..MaxRows
    /\ null_keys \in NullKeySets
    /\ task_count \in TaskCounts
    /\ compression_task_id \in {NoTask} \cup (0..(Max(task_count, 1) - 1))
    /\ num_cores \in 1..MaxWorkers
    /\ conn_budget \in 1..MaxWorkers
    /\ task_ranges = << >>
    /\ limit_start = 0
    /\ limit_end = 0
    /\ num_connections = 0
    /\ worker_ranges = << >>
    /\ c_pc = "start"
    /\ c_result = [kind |-> "none", from |-> Coordinator]
    /\ main_progress = 0
    /\ progress_log = << >>
    /\ w_pc = << >>
    /\ w_result = << >>
    /\ w_range = << >>
    /\ w_rows = << >>
    /\ n_conn_opened = 0
    /\ n_fetches = 0
    /\ n_staging = 0
    /\ n_merges = 0
    /\ pq_dest = {}
    /\ wr_total_row_cnt = << >>
    /\ wr_processed_row_cnt = << >>
    /\ wr_progress = << >>

CoordReturn(kind, from) ==
    /\ c_pc' = "done"
    /\ c_result' = [kind |-> kind, from |-> from]

\* compression.rs 178-262: the coordinator up to the fan-out.  `fault` names
\* the database call of the coordinator that fails, if any.
CoordStart ==
    /\ c_pc = "start"
    /\ \E fault \in {"none", "transaction", "codebook_query", "active_query"} :
        LET range == IF compression_task_id = NoTask
                     THEN [start |-> 0, end |-> total_row_cnt]
                     ELSE TaskRange(total_row_cnt, task_count, compression_task_id)
            check == CodebookCheck(codebook_rows, splits)
            n     == NumConnections(num_cores, conn_budget)
        IN  IF \/ fault \in {"transaction", "codebook_query"}
               \/ (compression_task_id # NoTask /\ task_count = 0)
               \/ check \in {"empty", "incomplete"}
            THEN /\ CoordReturn("err", Coordinator)
                 /\ UNCHANGED <<limit_start, limit_end, num_connections, main_progress,
                                progress_log, w_pc, w_result, w_range, w_rows>>
            ELSE IF check = "panic"
            THEN /\ CoordReturn("panic", Coordinator)
                 /\ UNCHANGED <<limit_start, limit_end, num_connections, main_progress,
                                progress_log, w_pc, w_result, w_range, w_rows>>
            ELSE \* set_and_report_progress(progress_cb, logger, main_progress, 10)
                 /\ main_progress' = 10
                 /\ progress_log' = Append(progress_log, 10)
                 /\ limit_start' = range.start
                 /\ limit_end' = range.end
                 /\ IF fault = "active_query"
                    THEN /\ compression_task_id = NoTask
                         /\ CoordReturn("err", Coordinator)
                         /\ UNCHANGED <<num_connections, w_pc, w_result, w_range, w_rows>>
                    ELSE /\ num_connections' = n
                         /\ c_pc' = "workers"
                         /\ w_pc' = [i \in 0..(n - 1) |-> "idle"]
                         /\ w_result' = [i \in 0..(n - 1) |-> "none"]
                         /\ w_range' = [i \in 0..(n - 1) |-> [start |-> 0, end |-> 0]]
                         /\ w_rows' = [i \in 0..(n - 1) |-> {}]
                         /\ UNCHANGED c_result
    /\ UNCHANGED <<wr_total_row_cnt, wr_processed_row_cnt, wr_progress,
                   splits, codebook_rows, compression_task_id, null_keys,
                   n_conn_opened, n_fetches, n_staging, n_merges, pq_dest,
                   total_row_cnt, task_count, task_ranges, num_cores, conn_budget,
                   worker_ranges>>

WorkerEnds(i, result) ==
    /\ w_pc' = [w_pc EXCEPT ![i] = "done"]
    /\ w_result' = [w_result EXCEPT ![i] = result]

\* compression.rs 270-315: worker i connects, queries its range, drops the
\* rows whose vector is NULL and compresses the rest.  rows[0] panics when no
\* row is left, compress_vectors when a segment 0..splits-1 has no list.
WorkerStart(i) ==
    /\ c_pc = "workers"
    /\ w_pc[i] = "idle"
    /\ \E fault \in {"none", "connect", "query"} :
        LET range == WorkerRange(i, limit_start, limit_end, num_connections, num_cores)
            rows  == {k \in 0..(total_row_cnt - 1) :
                         InRange(k, range) /\ k \notin null_keys}
            map   == codebooks_hashmap(codebook_rows).map
        IN  IF fault = "connect"
            THEN /\ WorkerEnds(i, "err")
                 /\ UNCHANGED <<w_range, w_rows, n_conn_opened, n_fetches>>
            ELSE /\ n_conn_opened' = n_conn_opened + 1
                 /\ w_range' = [w_range EXCEPT ![i] = range]
                 /\ IF fault = "query"
                    THEN /\ WorkerEnds(i, "err")
                         /\ UNCHANGED <<w_rows, n_fetches>>
                    ELSE /\ n_fetches' = n_fetches + 1
                         /\ IF rows = {} \/ \E seg \in 0..(splits - 1) : seg \notin DOMAIN map
                            THEN /\ WorkerEnds(i, "panic")
                                 /\ UNCHANGED w_rows
                            ELSE /\ w_pc' = [w_pc EXCEPT ![i] = "fetched"]
                                 /\ w_rows' = [w_rows EXCEPT ![i] = rows]
                                 /\ UNCHANGED w_result
    /\ UNCHANGED <<wr_total_row_cnt, wr_processed_row_cnt, wr_progress,
                   splits, codebook_rows, compression_task_id, null_keys, c_pc,
                   c_result, main_progress, progress_log, n_staging, n_merges, pq_dest,
                   rangeVars>>

\* compression.rs 317-327, write_compressed_rows (84-153): the staging
\* relation, the COPY stream and the merge, in the worker's transaction.  The
\* progress report of lines 128-135 is made every 1000 rows, more than a
\* worker of this model holds.
WorkerWrite(i) ==
    /\ c_pc = "workers"
    /\ w_pc[i] = "fetched"
    /\ \E fault \in {"none", "create", "merge"} :
        IF fault = "create"
        THEN /\ WorkerEnds(i, "err")
             /\ UNCHANGED <<n_staging, n_merges>>
        ELSE /\ n_staging' = n_staging + 1
             /\ IF fault = "merge"
                THEN /\ WorkerEnds(i, "err")
                     /\ UNCHANGED n_merges
                ELSE /\ n_merges' = n_merges + 1
                     /\ w_pc' = [w_pc EXCEPT ![i] = "written"]
                     /\ UNCHANGED w_result
    /\ UNCHANGED <<wr_total_row_cnt, wr_processed_row_cnt, wr_progress,
                   splits, codebook_rows, compression_task_id, null_keys, c_pc,
                   c_result, main_progress, progress_log, w_range, w_rows,
                   n_conn_opened, n_fetches, pq_dest, rangeVars>>

\* compression.rs 328-329: the worker's own commit.
WorkerCommit(i) ==
    /\ c_pc = "workers"
    /\ w_pc[i] = "written"
    /\ \/ /\ WorkerEnds(i, "ok")
          /\ pq_dest' = pq_dest \cup w_rows[i]
       \/ /\ WorkerEnds(i, "err")
          /\ UNCHANGED pq_dest
    /\ UNCHANGED <<wr_total_row_cnt, wr_processed_row_cnt, wr_progress,
                   splits, codebook_rows, compression_task_id, null_keys, c_pc,
                   c_result, main_progress, progress_log, w_range, w_rows,
                   n_conn_opened, n_fetches, n_staging, n_merges, rangeVars>>

\* compression.rs 330-338: the fan-in.  A worker's panic is resumed in the
\* caller once the parallel iterator is through; otherwise the first error
\* in worker order is returned, and without one the coordinator commits.
CoordCollect ==
    /\ c_pc = "workers"
    /\ FanInReady
    /\ IF \E i \in Workers : w_result[i] = "panic"
       THEN \E i \in Workers : w_result[i] = "panic" /\ CoordReturn("panic", i)
       ELSE IF \E i \in Workers : w_result[i] = "err"
       THEN CoordReturn("err", FirstError(w_result))
       ELSE \/ CoordReturn("ok", Coordinator)
            \/ CoordReturn("err", Coordinator)
    /\ UNCHANGED <<wr_total_row_cnt, wr_processed_row_cnt, wr_progress,
                   splits, codebook_rows, compression_task_id, null_keys,
                   main_progress, progress_log, w_pc, w_result, w_range, w_rows,
                   n_conn_opened, n_fetches, n_staging, n_merges, pq_dest, rangeVars>>

InitCompress == CompInit /\ SinkIdle /\ QuantIdle /\ PipeIdle

NextCompress ==
    \/ CoordStart /\ UNCHANGED <<sinkVars, embChan, n_sent, quantVars, pipeVars>>
    \/ \E i \in Workers : WorkerStart(i) /\ UNCHANGED <<sinkVars, embChan, n_sent, quantVars, pipeVars>>
    \/ \E i \in Workers : WorkerWrite(i) /\ UNCHANGED <<sinkVars, embChan, n_sent, quantVars, pipeVars>>
    \/ \E i \in Workers : WorkerCommit(i) /\ UNCHANGED <<sinkVars, embChan, n_sent, quantVars, pipeVars>>
    \/ CoordCollect /\ UNCHANGED <<sinkVars, embChan, n_sent, quantVars, pipeVars>>

SpecCompress == InitCompress /\ [][NextCompress]_vars

(***************************************************************************)
(* Claims about the coordinator, checked under SpecCompress.               *)
(***************************************************************************)
\* C9: the coordinator returns only after every worker has finished, whatever
\* its siblings returned; an error it returns is the first one in worker
\* order, and it returns success only when every worker succeeded.
C9_FanInAfterAllWorkers ==
    (c_pc = "done" /\ num_connections > 0) =>
        /\ \A i \in Workers : w_pc[i] = "done" /\ w_result[i] # "none"
        /\ c_result.kind = "ok" => \A i \in Workers : w_result[i] = "ok"
        /\ (c_result.kind = "err" /\ \E i \in Workers : w_result[i] = "err") =>
              /\ w_result[c_result.from] = "err"
              /\ \A j \in Workers : j < c_result.from => w_result[j] = "ok"
        /\ (c_result.kind # "panic" /\ \E i \in Workers : w_result[i] = "err") =>
              c_result.kind = "err"

\* Witness of C9: worker 0 failed, worker 1 still ran to its commit, and the
\* coordinator returned worker 0's error.
C9_Witness ==
    /\ c_pc = "done"
    /\ num_connections = 2
    /\ w_result[0] = "err"
    /\ w_result[1] = "ok"
    /\ w_rows[1] # {}
    /\ w_rows[1] \subseteq pq_dest
    /\ c_result = [kind |-> "err", from |-> 0]

\* No work is done before the codebook is validated.
NoWorkDone ==
    /\ progress_log = << >>
    /\ main_progress = 0
    /\ num_connections = 0
    /\ n_conn_opened = 0
    /\ n_fetches = 0
    /\ n_staging = 0
    /\ n_merges = 0
    /\ pq_dest = {}

RejectedCodebook ==
    codebook_rows = << >> \/ Cardinality(DistinctSegments(codebook_rows)) # splits

\* C10: with an empty codebook, or one whose number of distinct segments is
\* not the split count, the call returns an error before progress 10 is
\* reported, a worker connection opened, a row fetched or anything staged.
C10_RejectedCodebookReturnsErrorFirst ==
    RejectedCodebook =>
        /\ NoWorkDone
        /\ c_pc = "done" => c_result.kind = "err"

\* What does hold for such a codebook: the call never succeeds and no work
\* is done, whether it returns an error or panics.
C10_RejectedCodebookDoesNoWork ==
    RejectedCodebook => (NoWorkDone /\ c_result.kind # "ok" /\ c_pc # "workers")


(***************************************************************************)
(* Workers without rows (SpecCompress).                                    *)
(***************************************************************************)
\* The rows worker i keeps: those of its range whose vector is not NULL.
RowsOf(i) ==
    {k \in 0..(total_row_cnt - 1) :
        /\ InRange(k, WorkerRange(i, limit_start, limit_end, num_connections, num_cores))
        /\ k \notin null_keys}

\* Worker i has returned, none of its database calls failed, and its range
\* held no row with a vector.
EmptyWorker(i) == w_pc[i] = "done" /\ w_result[i] # "err" /\ RowsOf(i) = {}

\* C22: a worker whose range holds no row, or only rows with a NULL vector,
\* completes successfully having written and merged nothing, and the
\* coordinator call does not fail because of it: when every other worker
\* succeeded the only error it can return is one of its own calls.
C22_EmptyWorkerRangeSucceeds ==
    /\ \A i \in DOMAIN w_pc :
          EmptyWorker(i) => (w_result[i] = "ok" /\ w_rows[i] = {})
    /\ (/\ c_pc = "done"
        /\ \E i \in DOMAIN w_pc : EmptyWorker(i)
        /\ \A i \in DOMAIN w_pc : EmptyWorker(i) \/ w_result[i] = "ok") =>
          (c_result.kind # "panic" /\ c_result.from = Coordinator)

\* What does hold: a worker that returned Ok held at least one row.
C22_SuccessfulWorkerHeldRows ==
    \A i \in DOMAIN w_pc : w_result[i] = "ok" => (w_rows[i] # {} /\ w_rows[i] = RowsOf(i))

(***************************************************************************)

(* What a validated codebook guarantees (SpecCompress).                    *)
(***************************************************************************)
\* The validation of compression.rs 229-234 has passed: 10 was reported.
CodebookPassed == progress_log # << >>

LoadedCodebook == codebooks_hashmap(codebook_rows).map

\* The centroid ids of segment seg are 0 .. n-1 for some n.
ContiguousCentroids(seg) ==
    LET ids == {codebook_rows[i].centroid_id :
                   i \in {j \in DOMAIN codebook_rows : codebook_rows[j].subvector_id = seg}}
    IN  ids = 0..(Cardinality(ids) - 1)

\* C26: whenever the codebook validation passes, the loaded codebook has a
\* non-empty centroid list for every segment 0..splits-1, so the lookup of
\* compress_vectors succeeds for every segment; a codebook with a segment
\* id outside 0..splits-1 or with non-contiguous centroid ids does not pass.
C26_ValidatedCodebookCoversSegments ==
    CodebookPassed =>
        /\ \A seg \in 0..(splits - 1) :
              seg \in DOMAIN LoadedCodebook /\ Len(LoadedCodebook[seg]) > 0
        /\ DistinctSegments(codebook_rows) \subseteq 0..(splits - 1)
        /\ \A seg \in DistinctSegments(codebook_rows) : ContiguousCentroids(seg)

\* What does hold: a codebook that passes has as many distinct segment ids
\* as there are splits, each with a non-empty list of contiguous centroid ids.
C26_ValidatedCodebookHasSplitsSegments ==
    CodebookPassed =>
        /\ Cardinality(DOMAIN LoadedCodebook) = splits
        /\ \A seg \in DOMAIN LoadedCodebook : Len(LoadedCodebook[seg]) > 0
        /\ \A seg \in DistinctSegments(codebook_rows) : ContiguousCentroids(seg)

(***************************************************************************)

(* SpecProgress: the shared progress counter under the concurrent workers  *)
(* of compress_and_write_vectors.  A worker checks its progress every      *)
(* progress_every rows (compression.rs 128-135): it loads the counter,     *)
(* compares, and then calls report_progress; siblings may run between the  *)
(* load and the call.  The rows between two checks touch only the worker's *)
(* own COPY stream and are one step here.                                  *)
(***************************************************************************)
\* crate::report_progress, as called at compression.rs 133: the counter
\* takes the value passed.
report_progress(current, progress) == progress

\* crate::set_and_report_progress, as called at compression.rs 237.
set_and_report_progress(current, progress) == progress

\* Mutant of WorkerProgress: the worker's share is the whole scale.
WorkerProgressOfWhole(processed, total) == Min((100 * processed) \div total, U8Max)

\* compression.rs 130: (5.0 * (processed as f32 / total as f32)) as u8.
WorkerProgress(processed, total) == Min((5 * processed) \div total, U8Max)

RowCounts == {1} \cup {k * progress_every + r : k \in 1..MaxThousands, r \in {0, 1}}

ProgInit ==
    /\ num_connections \in 1..MaxWorkers
    /\ wr_total_row_cnt \in [0..(num_connections - 1) -> RowCounts]
    /\ wr_processed_row_cnt = [i \in 0..(num_connections - 1) |-> 0]
    /\ wr_progress = [i \in 0..(num_connections - 1) |-> 0]
    /\ w_pc = [i \in 0..(num_connections - 1) |-> "idle"]
    /\ c_pc = "start"
    /\ main_progress = 0
    /\ progress_log = << >>
    /\ total_row_cnt = 0
    /\ task_count = 0
    /\ task_ranges = << >>
    /\ num_cores = 1
    /\ conn_budget = 0
    /\ limit_start = 0
    /\ limit_end = 0
    /\ worker_ranges = << >>
    /\ splits = 0
    /\ codebook_rows = << >>
    /\ compression_task_id = 0
    /\ null_keys = {}
    /\ c_result = [kind |-> "none", from |-> 0]
    /\ w_result = << >>
    /\ w_range = << >>
    /\ w_rows = << >>
    /\ n_conn_opened = 0
    /\ n_fetches = 0
    /\ n_staging = 0
    /\ n_merges = 0
    /\ pq_dest = {}

progFrame == <<splits, codebook_rows, compression_task_id, null_keys, c_result,
               w_result, w_range, w_rows, n_conn_opened, n_fetches, n_staging,
               n_merges, pq_dest, wr_total_row_cnt, rangeVars>>

\* compression.rs 237 and 267: the codebook is loaded, 10 is reported and the
\* workers start.
CodebookLoaded ==
    /\ c_pc = "start"
    /\ main_progress' = set_and_report_progress(main_progress, 10)
    /\ progress_log' = Append(progress_log, 10)
    /\ c_pc' = "workers"
    /\ w_pc' = [i \in DOMAIN w_pc |-> "copy"]
    /\ UNCHANGED <<wr_processed_row_cnt, wr_progress, progFrame>>

\* compression.rs 118-136: worker i writes its rows up to the next check or
\* to the end of its rows; at a check it computes its progress, loads the
\* counter and compares ("copy"); after a comparison that succeeded it
\* calls report_progress ("report").
WriteCompressedRows(i) ==
    /\ c_pc = "workers"
    /\ w_pc[i] \in {"copy", "report"}
    /\ IF w_pc[i] = "report"
       THEN /\ main_progress' = report_progress(main_progress, wr_progress[i])
            /\ progress_log' = Append(progress_log, wr_progress[i])
            /\ w_pc' = [w_pc EXCEPT ![i] = "copy"]
            /\ UNCHANGED <<wr_processed_row_cnt, wr_progress>>
       ELSE IF wr_processed_row_cnt[i] = wr_total_row_cnt[i]
       THEN /\ w_pc' = [w_pc EXCEPT ![i] = "done"]
            /\ UNCHANGED <<main_progress, progress_log, wr_processed_row_cnt, wr_progress>>
       ELSE LET processed == Min(wr_total_row_cnt[i],
                                 ((wr_processed_row_cnt[i] \div progress_every) + 1)
                                     * progress_every)
                progress  == WorkerProgress(processed, wr_total_row_cnt[i])
            IN  /\ wr_processed_row_cnt' = [wr_processed_row_cnt EXCEPT ![i] = processed]
                /\ IF processed % progress_every = 0
                   THEN /\ wr_progress' = [wr_progress EXCEPT ![i] = progress]
                        /\ w_pc' = [w_pc EXCEPT ![i] =
                                       IF progress > main_progress THEN "report" ELSE "copy"]
                   ELSE UNCHANGED <<wr_progress, w_pc>>
                /\ UNCHANGED <<main_progress, progress_log>>
    /\ UNCHANGED <<c_pc, progFrame>>

InitProgress == ProgInit /\ SinkIdle /\ QuantIdle /\ PipeIdle

NextProgress ==
    \/ CodebookLoaded /\ UNCHANGED <<sinkVars, embChan, n_sent, quantVars, pipeVars>>
    \/ \E i \in Workers : WriteCompressedRows(i) /\ UNCHANGED <<sinkVars, embChan, n_sent, quantVars, pipeVars>>

SpecProgress == InitProgress /\ [][NextProgress]_vars

\* C23: under every interleaving of the workers the shared counter never
\* decreases: a value a worker stores is strictly greater than the value
\* the counter holds at that moment, and no worker's value replaces the
\* larger 10 of the coordinator or a larger value of a sibling; the values
\* reported over the job are increasing.
C23_ProgressCounterNeverDecreases ==
    /\ [][main_progress' >= main_progress]_vars
    /\ [][\A i \in DOMAIN w_pc :
             (w_pc[i] = "report" /\ w_pc'[i] = "copy") =>
                 (main_progress' = wr_progress[i] /\ wr_progress[i] > main_progress)]_vars
    /\ [](c_pc = "workers" => main_progress >= 10)
    /\ [](StrictlyIncreasing(progress_log))

\* Witness of C23: two workers have both been through their last check with
\* a progress of 5, and the counter holds the coordinator's 10.
C23_Witness ==
    /\ c_pc = "workers"
    /\ num_connections = 2
    /\ \A i \in Workers : w_pc[i] = "done" /\ wr_progress[i] = 5
    /\ main_progress = 10
    /\ progress_log = <<10>>

(***************************************************************************)

(* SpecConnections: the worker count of compress_and_write_vectors         *)
(* (compression.rs 245-261) as a function of its inputs.  A usize          *)
(* subtraction that underflows panics in a build with overflow checks and  *)
(* wraps modulo 2^64 in one without; the model has both outcomes.          *)
(***************************************************************************)
UsizeSub(a, b) ==
    IF a >= b
    THEN {[kind |-> "ok", value |-> a - b]}
    ELSE {[kind |-> "panic", value |-> 0],
          [kind |-> "ok", value |-> (a + UsizeModulus - b) % UsizeModulus]}

\* compression.rs 252 and 255-257: the connection budget.
ConnBudget(max_conn, active, tcount, has_task) ==
    IF has_task
    THEN {IF r.kind = "ok" THEN [kind |-> "ok", value |-> r.value \div tcount] ELSE r :
              r \in UsizeSub(max_conn, 2)}
    ELSE UsizeSub(max_conn, active)

\* compression.rs 246-261: num_connections.
WorkerCount(in) ==
    {IF b.kind = "ok"
     THEN [kind |-> "ok", value |-> NumConnections(in.num_cores, b.value)]
     ELSE b :
         b \in ConnBudget(in.max_connections, in.active_connections, in.task_count,
                          in.has_task_id)}

ConnInputs ==
    [max_connections : 0..MaxConn, active_connections : 0..MaxConn,
     task_count : 1..MaxTaskCount, has_task_id : BOOLEAN, num_cores : 1..MaxCores]

ConnInit ==
    /\ q_in \in ConnInputs
    /\ q_out = [kind |-> "none", value |-> 0]

ComputeConnections ==
    /\ q_out.kind = "none"
    /\ q_out' \in WorkerCount(q_in)
    /\ UNCHANGED q_in

InitConnections == ConnInit /\ SinkIdle /\ RangesIdle /\ CompIdle /\ PipeIdle

NextConnections ==
    \/ ComputeConnections /\ UNCHANGED <<sinkVars, embChan, n_sent, rangeVars, compVars, pipeVars>>

SpecConnections == InitConnections /\ [][NextConnections]_vars

\* The budget of the specification, in the integers.
Budget(in) ==
    IF in.has_task_id THEN (in.max_connections - 2) \div in.task_count
                      ELSE in.max_connections - in.active_connections

\* C17: for every max_connections, active connection count, task count and
\* core count the worker count is max(1, min(cores, budget)), between 1 and
\* the core count, also when max_connections is below the reserved 2 or
\* below the active connection count.
C17_WorkerCountWithinBudget ==
    q_out.kind # "none" =>
        /\ q_out.kind = "ok"
        /\ q_out.value = Max(1, Min(q_in.num_cores, Budget(q_in)))
        /\ 1 <= q_out.value /\ q_out.value <= q_in.num_cores
        /\ Budget(q_in) > 0 => q_out.value <= Budget(q_in)

\* What does hold: the same when the subtraction does not underflow.
C17_HoldsWithoutUnderflow ==
    (q_out.kind # "none" /\ Budget(q_in) >= 0
       /\ (q_in.has_task_id => q_in.max_connections >= 2)) =>
        /\ q_out.kind = "ok"
        /\ q_out.value = Max(1, Min(q_in.num_cores, Budget(q_in)))
        /\ 1 <= q_out.value /\ q_out.value <= q_in.num_cores

(***************************************************************************)

(* The wire format of the sink's bulk-load streams (SpecSink).             *)
(***************************************************************************)
\* C24: every bulk-load stream the sink has open, the first and each one
\* reopened after a flush, reads the token NULL as an absent value, so a
\* record with an empty vector loads in every flush: a job none of whose
\* database calls failed ends successfully, and the destination of such a
\* record's key holds an absent value or a later result.
C24_EveryStreamReadsNullToken ==
    /\ e_pc = "recv" => writer_null
    /\ (e_pc = "done" /\ has_privilege /\ ~faulted) =>
          /\ exp_result.kind = "ok"
          /\ \A r \in received : r[2] = << >> => dest[r[1]] # OldValue

\* What does hold: the stream opened first reads the token NULL as absent.
C24_FirstStreamReadsNullToken ==
    (e_pc = "recv" /\ merges = 0) => writer_null

(***************************************************************************)

(* csv_exporter_worker (mod.rs 392-422), the sink chosen when an output    *)
(* file is given, and SpecExporters: a job with either sink, fed like      *)
(* SpecSink.  An unwrap() of a failed file operation panics.               *)
(***************************************************************************)
CsvInit ==
    /\ item_count = 0
    /\ stream = FALSE
    /\ has_cb = FALSE
    /\ create_column = FALSE
    /\ has_privilege = FALSE
    /\ setup_log = << >>
    /\ received = {}
    /\ elapsed_at_check = FALSE
    /\ emb_q = << >>
    /\ emb_tx_open = TRUE
    /\ emb_rx_open = TRUE
    /\ e_pc = "csv_open"
    /\ writer_null = FALSE
    /\ written = {}
    /\ temp_table = {}
    /\ dest = [k \in {} |-> 0]
    /\ timer_expired = FALSE
    /\ collected_row_cnt = 0
    /\ processed_row_cnt = 0
    /\ old_progress = 0
    /\ cb_calls = << >>
    /\ merges = 0
    /\ flush_log = << >>
    /\ stream_ended = FALSE
    /\ exp_result = [kind |-> "none"]
    /\ faulted = FALSE
    /\ n_sent = 0

csvFrame == <<item_count, stream, has_cb, create_column, has_privilege, setup_log,
              elapsed_at_check, writer_null, written, temp_table, dest, timer_expired,
              collected_row_cnt, old_progress, cb_calls, merges, flush_log,
              stream_ended>>

\* A panic of the sink's thread: the thread ends and its Receiver is dropped.
CsvPanic ==
    /\ e_pc' = "done"
    /\ exp_result' = [kind |-> "panic"]
    /\ emb_rx_open' = FALSE
    /\ emb_q' = << >>
    /\ faulted' = TRUE

\* mod.rs 398-400: the output file is created.
CsvOpen ==
    /\ e_pc = "csv_open"
    /\ \/ /\ e_pc' = "csv_recv"
          /\ UNCHANGED <<exp_result, emb_rx_open, emb_q, faulted>>
       \/ CsvPanic
    /\ UNCHANGED <<csvFrame, received, processed_row_cnt, emb_tx_open>>

\* mod.rs 402-413: what one received batch adds to processed_row_cnt: the
\* statement `processed_row_cnt += rows.len()` is in the body of the loop
\* over the rows, so it runs once per row.
CsvCounted(len) == len * len

\* mod.rs 401-414: one iteration of the receive loop, a record written per
\* row.
CsvRecv ==
    /\ e_pc = "csv_recv"
    /\ emb_q # << >>
    /\ LET rows == Head(emb_q)
       IN  \/ /\ received' = received \cup Range(rows.recs)
              /\ processed_row_cnt' = processed_row_cnt + CsvCounted(BatchLen(rows))
              /\ emb_q' = Tail(emb_q)
              /\ UNCHANGED <<e_pc, exp_result, emb_rx_open, faulted>>
           \/ /\ BatchLen(rows) > 0
              /\ CsvPanic
              /\ UNCHANGED <<received, processed_row_cnt>>
    /\ UNCHANGED <<csvFrame, emb_tx_open>>

\* mod.rs 401, 415-417: rx.recv() failed, the file is flushed and the count
\* returned.
CsvFinish ==
    /\ e_pc = "csv_recv"
    /\ emb_q = << >>
    /\ ~emb_tx_open
    /\ \/ /\ e_pc' = "done"
          /\ exp_result' = [kind |-> "ok", rows |-> processed_row_cnt]
          /\ emb_rx_open' = FALSE
          /\ UNCHANGED <<emb_q, faulted>>
       \/ CsvPanic
    /\ UNCHANGED <<csvFrame, received, processed_row_cnt, emb_tx_open>>

InitCsv == CsvInit /\ RangesIdle /\ QuantIdle /\ CompIdle /\ PipeIdle

NextCsv ==
    \/ CsvOpen /\ UNCHANGED <<n_sent, rangeVars, quantVars, compVars, pipeVars>>
    \/ CsvRecv /\ UNCHANGED <<n_sent, rangeVars, quantVars, compVars, pipeVars>>
    \/ CsvFinish /\ UNCHANGED <<n_sent, rangeVars, quantVars, compVars, pipeVars>>

InitExporters == InitSink \/ InitCsv

NextExporters == NextSink \/ NextCsv

SpecExporters == InitExporters /\ [][NextExporters]_vars

\* A step in which a sink takes a batch from its channel and stays in its loop.
BatchTaken ==
    /\ e_pc \in {"recv", "csv_recv"}
    /\ e_pc' = e_pc
    /\ emb_q # << >>
    /\ emb_q' = Tail(emb_q)

\* C27: for both sinks and every sequence of received batches the processed
\* row count returned is the number of records the sink received: it is 0
\* before the first batch, each batch taken adds its length, and the value
\* returned is the count.
C27_ProcessedCountIsSumOfBatchLengths ==
    /\ [](n_sent = 0 => processed_row_cnt = 0)
    /\ [][BatchTaken => processed_row_cnt' = processed_row_cnt + BatchLen(Head(emb_q))]_vars
    /\ [](exp_result.kind = "ok" => exp_result.rows = processed_row_cnt)

\* What does hold: the same for the database sink.
C27_DbSinkCountsBatchLengths ==
    /\ [](n_sent = 0 => processed_row_cnt = 0)
    /\ [][(BatchTaken /\ e_pc = "recv") =>
             processed_row_cnt' = processed_row_cnt + BatchLen(Head(emb_q))]_vars
    /\ [](exp_result.kind = "ok" => exp_result.rows = processed_row_cnt)


(* SpecPartial: a job of either kind, the sink of SpecSink or the          *)
(* coordinator of SpecCompress, for what both have in common.              *)
(***************************************************************************)
InitPartial == InitSink \/ InitCompress

NextPartial == NextSink \/ NextCompress

SpecPartial == InitPartial /\ [][NextPartial]_vars

SinkFailed == e_pc = "done" /\ exp_result.kind = "err"

\* C21: partial success is retained.  A step in which the sink fails changes
\* nothing the flushes before it committed, so after a failure that follows
\* k flushes the destination holds, for each key, the result of the latest
\* of those flushes that staged it; and the rows merged by a compression
\* worker that committed are in the destination whatever its siblings and
\* the coordinator returned.
C21_PartialSuccessRetained ==
    /\ [][(SinkFailed' /\ ~SinkFailed) =>
             (dest' = dest /\ merges' = merges /\ flush_log' = flush_log)]_vars
    /\ [](SinkFailed =>
             /\ merges = Len(flush_log)
             /\ \A k \in DOMAIN dest :
                   IF LastFlushOf(k) = 0
                   THEN dest[k] = OldValue
                   ELSE \E row \in flush_log[LastFlushOf(k)] :
                            row[1] = k /\ row[2] = dest[k])
    /\ [][\A k \in pq_dest : k \in pq_dest']_vars
    /\ [](\A i \in DOMAIN w_result : w_result[i] = "ok" => w_rows[i] \subseteq pq_dest)

\* Witness of C21: the sink failed after a committed flush whose result is
\* in the destination.
C21_Witness ==
    /\ SinkFailed
    /\ stream
    /\ faulted
    /\ Len(flush_log) = 1
    /\ \E k \in Keys :
          /\ flush_log[1] = {<<k, SqlArray(<<1>>)>>}
          /\ dest[k] = SqlArray(<<1>>)

(***************************************************************************)

(* SpecPairing: how embedding_worker pairs the ids of a batch with the     *)
(* vectors the runtime returned for its texts (mod.rs 209-215).  A vector  *)
(* is named by the position of the text it was computed for.               *)
(***************************************************************************)
\* mod.rs 211-215: for each returned vector, pop an id and a vector from the
\* end of their lists and push the pair.  input_ids.pop().unwrap() panics
\* when the ids have run out.
RECURSIVE PopLoop(_, _, _, _)
PopLoop(n, input_ids, embeddings, data) ==
    IF n = 0 THEN [kind |-> "ok", recs |-> data]
    ELSE IF input_ids = << >> THEN [kind |-> "panic", recs |-> data]
    ELSE PopLoop(n - 1,
                 SubSeq(input_ids, 1, Len(input_ids) - 1),
                 SubSeq(embeddings, 1, Len(embeddings) - 1),
                 Append(data, <<Last(input_ids), Last(embeddings)>>))

pop_pairs(input_ids, embeddings) == PopLoop(Len(embeddings), input_ids, embeddings, << >>)

\* The ids of the processable rows of a batch: distinct, at least one.
InputIdLists ==
    {ids \in SeqsUpTo(1..MaxInputs, MaxInputs) :
        /\ Len(ids) >= 1
        /\ \A i, j \in DOMAIN ids : i # j => ids[i] # ids[j]}

\* The runtime's answer: a vector for each of the first m texts.
PairingInputs ==
    [input_ids : InputIdLists,
     embeddings : {[j \in 1..m |-> j] : m \in 0..(MaxInputs + 1)}]

PairingInit ==
    /\ q_in \in PairingInputs
    /\ q_out = [kind |-> "none", recs |-> << >>]

PairBatch ==
    /\ q_out.kind = "none"
    /\ q_out' = pop_pairs(q_in.input_ids, q_in.embeddings)
    /\ UNCHANGED q_in

InitPairing == PairingInit /\ SinkIdle /\ RangesIdle /\ CompIdle /\ PipeIdle

NextPairing ==
    \/ PairBatch /\ UNCHANGED <<sinkVars, embChan, n_sent, rangeVars, compVars, pipeVars>>

SpecPairing == InitPairing /\ [][NextPairing]_vars

\* C25: for every batch and every number of vectors the runtime returns for
\* it, each emitted record pairs a row's key with the vector returned at the
\* position of that row's text: record <<id, v>> has id = input_ids[v].
C25_KeyPairedWithItsOwnVector ==
    q_out.kind # "none" =>
        /\ q_out.kind = "ok"
        /\ \A i \in DOMAIN q_out.recs :
              LET rec == q_out.recs[i] IN q_in.input_ids[rec[2]] = rec[1]

\* What does hold: the same when the runtime returns one vector per text.
C25_PairedWhenCountsAgree ==
    (q_out.kind # "none" /\ Len(q_in.embeddings) = Len(q_in.input_ids)) =>
        /\ q_out.kind = "ok"
        /\ Len(q_out.recs) = Len(q_in.input_ids)
        /\ \A i \in DOMAIN q_out.recs :
              LET rec == q_out.recs[i] IN q_in.input_ids[rec[2]] = rec[1]

(***************************************************************************)

(* Spec: create_embeddings_from_db (mod.rs 455-545) with the producer, the *)
(* embedding worker and the database sink.  Both channels are unbounded    *)
(* (mpsc::channel), a send never blocks.                                   *)
(***************************************************************************)
Payloads == {"null", "blank", "text"}

\* Scenario A of the specification: three rows, the second with a null payload.
ScenarioATable == <<"text", "null", "text">>

SourceTables == {<< >>, ScenarioATable} \cup SeqsUpTo(Payloads, MaxSrcRows)

BatchSizes == 1..MaxSrcRows

\* The vectors the runtime returns in the model: empty or of one component.
Embeddings == {<< >>, <<1>>}

SourceRow(k) == [ctid |-> k, payload |-> src_rows[k]]

\* Mutant of IsProcessable: the payload is not trimmed before the test.
IsProcessableUntrimmed(row) == row.payload # "null"

\* mod.rs 173-183: a row is embedded when its payload is neither NULL nor
\* blank after trimming.
IsProcessable(row) == row.payload # "null" /\ row.payload # "blank"

Reverse(seq) == [i \in 1..Len(seq) |-> seq[Len(seq) + 1 - i]]

\* mod.rs 211-215: ids and embeddings are popped from the end and pushed.
response_data(inputs, embeddings) ==
    Reverse([i \in 1..Len(inputs) |-> <<inputs[i].ctid, embeddings[i]>>])

\* Mutant of ReadCancelFlag: the flag is never seen set.
ReadCancelFlagIgnored == FALSE

\* mod.rs 162: the read of the shared flag when a batch has been received.
ReadCancelFlag == is_canceled

\* Mutant of CountDelivered: the caller does not wait for the count.
CountDeliveredAlways == TRUE

\* mod.rs 134-137: count_rx.recv() returns once the count was sent or the
\* Sender is gone.
CountDelivered == count_ch.state # "unsent"

\* Mutant of ProducerFails: a failed COUNT query lets the producer go on.
ProducerFailsExceptCount(fault) == fault \notin {"none", "count"}

\* mod.rs 72-111: each failing call of the producer's set-up ends the thread
\* with an error (bail! at 76 and 91, `?` at 80 and 111).
ProducerFails(fault) == fault # "none"

\* mod.rs 66-111: the calls of the producer before its loop.
ProducerCalls(track) ==
    <<"connect", "transaction">>
    \o (IF track THEN <<"count">> ELSE << >>)
    \o <<"bind">>

\* mod.rs 75, 90, 98, 103: what the producer sends on the count channel; a
\* failed client.transaction() returns without a send.
CountMessage(track, fault, count) ==
    IF fault = "transaction" THEN [state |-> "dropped", value |-> 0]
    ELSE IF track /\ fault \in {"none", "bind"} THEN [state |-> "sent", value |-> count]
    ELSE [state |-> "sent", value |-> 0]

PipeInit ==
    /\ src_rows \in SourceTables
    /\ batch_size \in BatchSizes
    /\ track_progress \in BOOLEAN
    /\ stream \in BOOLEAN
    /\ has_cb \in BOOLEAN
    /\ create_column = FALSE
    /\ has_privilege \in BOOLEAN
    /\ is_canceled = FALSE
    /\ p_pc = "start"
    /\ p_result = "none"
    /\ p_fault = "none"
    /\ p_log = << >>
    /\ count_ch = [state |-> "unsent", value |-> 0]
    /\ portal_pos = 0
    /\ prod_q = << >>
    /\ prod_tx_open = TRUE
    /\ prod_rx_open = TRUE
    /\ g_pc = "idle"
    /\ g_result = "none"
    /\ rt_log = << >>
    /\ o_pc = "producer"
    /\ o_result = [kind |-> "none"]
    /\ item_count = 0
    /\ emb_q = << >>
    /\ emb_tx_open = TRUE
    /\ emb_rx_open = TRUE
    /\ e_pc = "idle"
    /\ setup_log = << >>
    /\ received = {}
    /\ elapsed_at_check = FALSE
    /\ writer_null = FALSE
    /\ written = {}
    /\ temp_table = {}
    /\ dest = [k \in DOMAIN src_rows |-> OldValue]
    /\ timer_expired = FALSE
    /\ collected_row_cnt = 0
    /\ processed_row_cnt = 0
    /\ old_progress = 0
    /\ cb_calls = << >>
    /\ merges = 0
    /\ flush_log = << >>
    /\ stream_ended = FALSE
    /\ exp_result = [kind |-> "none"]
    /\ faulted = FALSE
    /\ n_sent = 0

\* The sink's variables no other thread writes.
sinkOwn == <<stream, has_cb, create_column, has_privilege, setup_log, received,
             elapsed_at_check, writer_null, written, temp_table, dest, timer_expired,
             collected_row_cnt, processed_row_cnt, old_progress, cb_calls, merges,
             flush_log, stream_ended, exp_result>>

\* mod.rs 45-111: the producer connects, opens its transaction, runs the
\* COUNT query when an estimate is asked for, sends the count and binds the
\* portal.  `fault` names the call that fails, if any.
ProducerStart ==
    /\ p_pc = "start"
    /\ \E fault \in {"none", "connect", "transaction", "count", "bind"} :
        LET calls == ProducerCalls(track_progress)
        IN  /\ fault = "count" => track_progress
            /\ p_log' = IF fault = "none" THEN calls ELSE UpTo(calls, fault)
            /\ p_fault' = fault
            /\ count_ch' = CountMessage(track_progress, fault, Len(src_rows))
            /\ faulted' = (fault # "none")
            /\ IF ProducerFails(fault)
               THEN /\ p_pc' = "done"
                    /\ p_result' = "err"
                    /\ prod_tx_open' = FALSE
               ELSE /\ p_pc' = "poll"
                    /\ UNCHANGED <<p_result, prod_tx_open>>
    /\ UNCHANGED <<sinkOwn, item_count, e_pc, embChan, src_rows, batch_size,
                   track_progress, is_canceled, portal_pos, prod_q, prod_rx_open,
                   g_pc, g_result, rt_log, o_pc, o_result>>

\* mod.rs 134-139 and 481-506: producer_worker returns the count to the
\* caller, which then spawns the sink with it and the embedding worker.
ReceiveCount ==
    /\ o_pc = "producer"
    /\ CountDelivered
    /\ item_count' = count_ch.value
    /\ e_pc' = "setup"
    /\ g_pc' = "start"
    /\ o_pc' = "join_producer"
    /\ UNCHANGED <<sinkOwn, faulted, embChan, src_rows, batch_size, track_progress,
                   is_canceled, p_pc, p_result, p_fault, p_log, count_ch, portal_pos,
                   prod_q, prod_tx_open, prod_rx_open, g_result, rt_log, o_result>>

\* mod.rs 114-129: one query_portal call and the send of its rows.
ProducerPoll ==
    /\ p_pc = "poll"
    /\ \E db_ok \in BOOLEAN :
        LET last == Min(portal_pos + batch_size, Len(src_rows))
            rows == [i \in 1..(last - portal_pos) |-> SourceRow(portal_pos + i)]
        IN  /\ faulted' = (faulted \/ ~db_ok)
            /\ IF ~db_ok
               THEN /\ p_pc' = "done"
                    /\ p_result' = "err"
                    /\ p_fault' = "poll"
                    /\ prod_tx_open' = FALSE
                    /\ UNCHANGED <<prod_q, portal_pos>>
               ELSE IF Len(rows) = 0 \/ ~prod_rx_open
               THEN /\ p_pc' = "done"
                    /\ p_result' = "ok"
                    /\ prod_tx_open' = FALSE
                    /\ UNCHANGED <<prod_q, portal_pos, p_fault>>
               ELSE /\ prod_q' = Append(prod_q, rows)
                    /\ portal_pos' = last
                    /\ UNCHANGED <<p_pc, p_result, p_fault, prod_tx_open>>
    /\ UNCHANGED <<sinkOwn, item_count, e_pc, embChan, src_rows, batch_size,
                   track_progress, is_canceled, p_log, count_ch, prod_rx_open, g_pc,
                   g_result, rt_log, o_pc, o_result>>

\* Mutant of EmbeddingEnds: the outbound Sender outlives the thread.
EmbeddingEndsKeepsSender(result) ==
    /\ g_pc' = "done"
    /\ g_result' = result
    /\ prod_rx_open' = FALSE
    /\ prod_q' = << >>
    /\ UNCHANGED emb_tx_open

\* The embedding thread ends: both its channel ends are dropped.
EmbeddingEnds(result) ==
    /\ g_pc' = "done"
    /\ g_result' = result
    /\ prod_rx_open' = FALSE
    /\ prod_q' = << >>
    /\ emb_tx_open' = FALSE

\* mod.rs 158: get_runtime.
EmbeddingStart ==
    /\ g_pc = "start"
    /\ \/ /\ g_pc' = "recv"
          /\ UNCHANGED <<g_result, prod_rx_open, prod_q, emb_tx_open, faulted>>
       \/ /\ EmbeddingEnds("err")
          /\ faulted' = TRUE
    /\ UNCHANGED <<sinkOwn, item_count, e_pc, emb_q, emb_rx_open, src_rows, batch_size,
                   track_progress, is_canceled, p_pc, p_result, p_fault, p_log,
                   count_ch, portal_pos, prod_tx_open, rt_log, o_pc, o_result>>

\* mod.rs 160-221: one iteration of the embedding worker's receive loop.
EmbeddingRecv ==
    /\ g_pc = "recv"
    /\ prod_q # << >>
    /\ LET rows   == Head(prod_q)
           inputs == SelectSeq(rows, IsProcessable)
           ids    == [i \in 1..Len(inputs) |-> inputs[i].ctid]
       IN  IF ReadCancelFlag
           THEN /\ EmbeddingEnds("cancelled")
                /\ UNCHANGED <<emb_q, faulted, rt_log>>
           ELSE IF Len(inputs) = 0
           THEN /\ prod_q' = Tail(prod_q)
                /\ UNCHANGED <<g_pc, g_result, prod_rx_open, emb_tx_open, emb_q, faulted,
                               rt_log>>
           ELSE \E runtime_ok \in BOOLEAN, embeddings \in [1..Len(inputs) -> Embeddings] :
                /\ faulted' = (faulted \/ ~runtime_ok)
                /\ rt_log' = Append(rt_log, ids)
                /\ IF ~runtime_ok
                   THEN /\ EmbeddingEnds("err")
                        /\ UNCHANGED emb_q
                   ELSE IF ~emb_rx_open
                   THEN /\ EmbeddingEnds("ok")
                        /\ UNCHANGED emb_q
                   ELSE /\ emb_q' = Append(emb_q, [recs  |-> response_data(inputs, embeddings),
                                                   extra |-> 0])
                        /\ prod_q' = Tail(prod_q)
                        /\ UNCHANGED <<g_pc, g_result, prod_rx_open, emb_tx_open>>
    /\ UNCHANGED <<sinkOwn, item_count, e_pc, emb_rx_open, src_rows, batch_size,
                   track_progress, is_canceled, p_pc, p_result, p_fault, p_log,
                   count_ch, portal_pos, prod_tx_open, o_pc, o_result>>

\* mod.rs 160, 223-230: rx.recv() fails once the producer's Sender is gone
\* and the channel is empty.
EmbeddingFinish ==
    /\ g_pc = "recv"
    /\ prod_q = << >>
    /\ ~prod_tx_open
    /\ EmbeddingEnds("ok")
    /\ UNCHANGED <<sinkVars, emb_q, emb_rx_open, src_rows, batch_size, track_progress,
                   is_canceled, p_pc, p_result, p_fault, p_log, count_ch, portal_pos,
                   prod_tx_open, rt_log, o_pc, o_result>>

\* The holder of the cancel handle sets the flag while the job runs.
Cancel ==
    /\ o_pc \in {"producer", "join_producer", "join_embedding", "join_exporter"}
    /\ ~is_canceled
    /\ is_canceled' = TRUE
    /\ UNCHANGED <<sinkVars, embChan, src_rows, batch_size, track_progress, p_pc,
                   p_result, p_fault, p_log, count_ch, portal_pos, prod_q, prod_tx_open,
                   prod_rx_open, g_pc, g_result, rt_log, o_pc, o_result>>

CallerFrame ==
    UNCHANGED <<sinkVars, embChan, src_rows, batch_size, track_progress, is_canceled,
                p_pc, p_result, p_fault, p_log, count_ch, portal_pos, prod_q,
                prod_tx_open, prod_rx_open, g_pc, g_result, rt_log>>

\* mod.rs 510-522: join the producer; its error is returned at once.
JoinProducer ==
    /\ o_pc = "join_producer"
    /\ p_pc = "done"
    /\ IF p_result = "err"
       THEN /\ o_pc' = "done"
            /\ o_result' = [kind |-> "err"]
       ELSE /\ o_pc' = "join_embedding"
            /\ UNCHANGED o_result
    /\ CallerFrame

\* mod.rs 524-530: join the embedding worker; `res?` returns its error,
\* the job-cancelled one included.
JoinEmbedding ==
    /\ o_pc = "join_embedding"
    /\ g_pc = "done"
    /\ IF g_result # "ok"
       THEN /\ o_pc' = "done"
            /\ o_result' = [kind |-> g_result]
       ELSE /\ o_pc' = "join_exporter"
            /\ UNCHANGED o_result
    /\ CallerFrame

\* mod.rs 532-542: join the sink and return its processed row count.
JoinExporter ==
    /\ o_pc = "join_exporter"
    /\ e_pc = "done"
    /\ o_pc' = "done"
    /\ o_result' = exp_result
    /\ CallerFrame

Init == PipeInit /\ RangesIdle /\ QuantIdle /\ CompIdle

Next ==
    \/ ProducerStart /\ UNCHANGED <<n_sent, rangeVars, quantVars, compVars>>
    \/ ReceiveCount /\ UNCHANGED <<n_sent, rangeVars, quantVars, compVars>>
    \/ ProducerPoll /\ UNCHANGED <<n_sent, rangeVars, quantVars, compVars>>
    \/ EmbeddingStart /\ UNCHANGED <<n_sent, rangeVars, quantVars, compVars>>
    \/ EmbeddingRecv /\ UNCHANGED <<n_sent, rangeVars, quantVars, compVars>>
    \/ EmbeddingFinish /\ UNCHANGED <<n_sent, rangeVars, quantVars, compVars>>
    \/ ExpSetup /\ UNCHANGED <<n_sent, rangeVars, quantVars, compVars, pipeVars>>
    \/ ExpRecv /\ UNCHANGED <<n_sent, rangeVars, quantVars, compVars, pipeVars>>
    \/ ExpFinish /\ UNCHANGED <<n_sent, rangeVars, quantVars, compVars, pipeVars>>
    \/ Cancel /\ UNCHANGED <<n_sent, rangeVars, quantVars, compVars>>
    \/ JoinProducer /\ UNCHANGED <<n_sent, rangeVars, quantVars, compVars>>
    \/ JoinEmbedding /\ UNCHANGED <<n_sent, rangeVars, quantVars, compVars>>
    \/ JoinExporter /\ UNCHANGED <<n_sent, rangeVars, quantVars, compVars>>

Spec == Init /\ [][Next]_vars

(***************************************************************************)
(* Claims about the whole job, checked under Spec.                         *)
(***************************************************************************)
NothingToEmbed == \A k \in DOMAIN src_rows : src_rows[k] \in {"null", "blank"}

\* C8: a job whose source yields no row, or only rows with a null or blank
\* payload, never executes a merge statement; when the principal holds the
\* update privilege, no database or runtime call fails and the job is not
\* cancelled, it returns success with a processed row count of 0, after 100
\* went to the progress callback.
C8_EmptyInputSucceedsWithZeroRows ==
    NothingToEmbed =>
        /\ merges = 0
        /\ processed_row_cnt = 0
        /\ (o_pc = "done" /\ has_privilege /\ ~faulted /\ ~is_canceled) =>
              /\ o_result = [kind |-> "ok", rows |-> 0]
              /\ e_pc = "done"
              /\ has_cb => (cb_calls # << >> /\ Last(cb_calls) = 100)

\* Witness of C8: two rows, one null and one blank, were polled and dropped
\* by the embedding worker; the job returned Ok(0) and the callback got 100.
C8_Witness ==
    /\ src_rows = <<"null", "blank">>
    /\ track_progress
    /\ has_cb
    /\ portal_pos = 2
    /\ o_pc = "done"
    /\ has_privilege
    /\ ~faulted
    /\ o_result = [kind |-> "ok", rows |-> 0]
    /\ cb_calls = <<100>>
    /\ merges = 0

\* A step of the embedding worker that takes a batch off its channel.
EmbStep == g_pc = "recv" /\ prod_q # << >> /\ Len(prod_q') < Len(prod_q)

\* C12: a flag that is set when the embedding worker receives a batch makes
\* it end with the job-cancelled condition without emitting a record for
\* that batch or a later one, and the call returns job-cancelled (when the
\* producer did not fail, whose error is returned first); the flag is read
\* only when a batch is received, so a worker that finds its channel closed
\* ends normally whatever the flag.
C12_CancelledAtBatchBoundary ==
    /\ [][(EmbStep /\ is_canceled) =>
             (g_pc' = "done" /\ g_result' = "cancelled" /\ emb_q' = emb_q)]_vars
    /\ [][g_pc = "done" => (g_result' = g_result /\ Len(emb_q') <= Len(emb_q))]_vars
    /\ [][(g_result' = "cancelled" /\ g_result # "cancelled") =>
             (EmbStep /\ is_canceled)]_vars
    /\ [][(g_pc = "recv" /\ g_pc' = "done" /\ prod_q = << >>) => g_result' = "ok"]_vars
    /\ []((o_pc = "done" /\ g_result = "cancelled" /\ p_result # "err") =>
             o_result = [kind |-> "cancelled"])

\* Witness of C12: rows with text were polled, the flag was set, the worker
\* ended cancelled with nothing emitted and the call returned job-cancelled.
C12_Witness ==
    /\ o_pc = "done"
    /\ is_canceled
    /\ portal_pos > 0
    /\ ~NothingToEmbed
    /\ g_result = "cancelled"
    /\ rt_log = << >>
    /\ received = {}
    /\ o_result = [kind |-> "cancelled"]

\* A flag set after the last batch was received: the job returns success.
C12_WitnessLateFlag ==
    /\ o_pc = "done"
    /\ is_canceled
    /\ g_result = "ok"
    /\ o_result.kind = "ok"
    /\ o_result.rows > 0

\* C14: the count reaches the caller before a downstream stage sees a
\* batch: the sink and the embedding worker exist only after the producer
\* has sent the count (or dropped its Sender) and the caller has taken it,
\* the producer binds its portal only after the send, and the sink's total
\* is the count sent and never changes once the sink exists.
C14_CountBeforeBatches ==
    /\ []((e_pc # "idle" \/ g_pc # "idle") =>
             /\ o_pc # "producer"
             /\ count_ch.state # "unsent"
             /\ item_count = count_ch.value)
    /\ []((p_pc = "poll" \/ portal_pos > 0 \/ prod_q # << >>) =>
             (count_ch.state = "sent" /\ Last(p_log) = "bind"))
    /\ [][e_pc # "idle" => item_count' = item_count]_vars
    /\ [][count_ch.state # "unsent" => count_ch' = count_ch]_vars

\* Witness of C14: the producer had sent a count of 2 and a batch before
\* the caller took the count; the sink then processed a row with total 2.
C14_Witness ==
    /\ track_progress
    /\ count_ch = [state |-> "sent", value |-> 2]
    /\ item_count = 2
    /\ e_pc = "recv"
    /\ processed_row_cnt = 1
    /\ old_progress = 50

\* C15: when an estimate is asked for and the COUNT query fails the job is
\* aborted: the producer ends with an error without emitting a batch and
\* the call returns an error; when no estimate is asked for, no COUNT query
\* is run and the total is 0.
C15_CountFailureAbortsJob ==
    /\ p_fault = "count" =>
          /\ track_progress
          /\ p_pc = "done" /\ p_result = "err"
          /\ portal_pos = 0 /\ prod_q = << >> /\ rt_log = << >> /\ received = {}
          /\ count_ch = [state |-> "sent", value |-> 0]
          /\ o_pc = "done" => o_result = [kind |-> "err"]
    /\ ~track_progress =>
          /\ \A i \in DOMAIN p_log : p_log[i] # "count"
          /\ count_ch.value = 0
          /\ item_count = 0

\* Witness of C15: the COUNT query failed on a table with rows to embed and
\* the call has returned an error.
C15_Witness ==
    /\ p_fault = "count"
    /\ p_log = <<"connect", "transaction", "count">>
    /\ ~NothingToEmbed
    /\ o_pc = "done"
    /\ o_result = [kind |-> "err"]

\* C16: a failure of the count-estimate query does not abort the job: the
\* total degrades to 0, the producer goes on to stream its batches and the
\* call does not fail because of it.
C16_CountFailureDegrades ==
    p_fault = "count" =>
        /\ p_result # "err"
        /\ count_ch = [state |-> "sent", value |-> 0]
        /\ (o_pc = "done" /\ has_privilege /\ ~is_canceled) => o_result.kind = "ok"

\* The rows of a batch that have text to embed.
WithText(rows) == {i \in DOMAIN rows : src_rows[rows[i].ctid] = "text"}

BatchesWithText == {i \in 1..((Len(src_rows) + batch_size - 1) \div batch_size) :
                       \E k \in DOMAIN src_rows :
                           /\ (k - 1) \div batch_size = i - 1
                           /\ src_rows[k] = "text"}

\* C18: rows with a null or blank payload are never submitted to the
\* runtime and give no record; for each received batch the runtime is
\* invoked once when a row remains and not at all when none does, and the
\* records emitted for the batch are as many as its remaining rows.
C18_NullAndBlankRowsFiltered ==
    /\ [](\A c \in DOMAIN rt_log : \A i \in DOMAIN rt_log[c] :
              src_rows[rt_log[c][i]] = "text")
    /\ [](\A r \in received : src_rows[r[1]] = "text")
    /\ [](\A b \in DOMAIN emb_q : \A i \in DOMAIN emb_q[b].recs :
              src_rows[emb_q[b].recs[i][1]] = "text")
    /\ [][(EmbStep /\ ~is_canceled) =>
             LET n == Cardinality(WithText(Head(prod_q)))
             IN  /\ n = 0 => (rt_log' = rt_log /\ emb_q' = emb_q /\ g_pc' = "recv")
                 /\ n > 0 => /\ Len(rt_log') = Len(rt_log) + 1
                             /\ Len(Last(rt_log')) = n
                             /\ g_pc' = "recv" =>
                                   /\ Len(emb_q') = Len(emb_q) + 1
                                   /\ Len(Last(emb_q').recs) = n
                                   /\ Last(emb_q').extra = 0]_vars
    /\ []((o_pc = "done" /\ o_result.kind = "ok") =>
             /\ Len(rt_log) = Cardinality(BatchesWithText)
             /\ o_result.rows = Cardinality({k \in DOMAIN src_rows : src_rows[k] = "text"}))

\* Witness of C18, Scenario A: three rows, the second null, batch size 2:
\* two runtime calls of one row each, two records, one merge that updates
\* the two rows with text and leaves the null row alone.
C18_Witness ==
    /\ src_rows = ScenarioATable
    /\ batch_size = 2
    /\ ~stream
    /\ o_pc = "done"
    /\ o_result = [kind |-> "ok", rows |-> 2]
    /\ rt_log = << <<1>>, <<3>> >>
    /\ Cardinality(received) = 2
    /\ merges = 1
    /\ {k \in DOMAIN dest : dest[k] # OldValue} = {1, 3}

FirstStageError ==
    IF p_result = "err" THEN [kind |-> "err"]
    ELSE IF g_result \in {"err", "cancelled"} THEN [kind |-> g_result]
    ELSE exp_result

\* C19: the call joins the three stage threads in source, transform, sink
\* order before it returns and returns the first error in that order; when
\* the source or the transform stage failed, the sink has finished by then.
C19_AllStagesJoinedBeforeReturn ==
    o_pc = "done" =>
        /\ p_pc = "done"
        /\ g_pc = "done"
        /\ e_pc = "done"
        /\ o_result = FirstStageError

\* What does hold: the stages are joined in that order up to the first one
\* that failed, whose error is returned.
C19_JoinedUpToFirstError ==
    o_pc = "done" =>
        /\ p_pc = "done"
        /\ p_result # "err" => g_pc = "done"
        /\ (p_result # "err" /\ g_result = "ok") => e_pc = "done"
        /\ o_result = FirstStageError

(***************************************************************************)
(* SpecLive: the job with every thread scheduled again and again (each is  *)
(* an operating system thread, every database and runtime call returns).  *)
(* The cancel flag is the environment's and has no fairness.               *)
(***************************************************************************)
OutsideJob == UNCHANGED <<n_sent, rangeVars, quantVars, compVars>>

ProducerThread == (ProducerStart \/ ProducerPoll) /\ OutsideJob

EmbeddingThread == (EmbeddingStart \/ EmbeddingRecv \/ EmbeddingFinish) /\ OutsideJob

SinkThread == (ExpSetup \/ ExpRecv \/ ExpFinish) /\ OutsideJob /\ UNCHANGED pipeVars

CallerThread == (ReceiveCount \/ JoinProducer \/ JoinEmbedding \/ JoinExporter) /\ OutsideJob

\* The jobs of SpecLive: no progress callback, rows that are blank or text.
InitLive ==
    /\ Init
    /\ ~has_cb
    /\ \A k \in DOMAIN src_rows : src_rows[k] # "null"

SpecLive ==
    /\ InitLive
    /\ [][Next]_vars
    /\ WF_vars(ProducerThread)
    /\ WF_vars(EmbeddingThread)
    /\ WF_vars(SinkThread)
    /\ WF_vars(CallerThread)

StageFailed ==
    p_result = "err" \/ g_result \in {"err", "cancelled"} \/ exp_result.kind = "err"

AllStagesDone == p_pc = "done" /\ g_pc = "done" /\ e_pc = "done"

\* C20: whichever stage fails, the ends of its channels are closed and all
\* three stage threads eventually terminate.
C20_StagesTerminateAfterFailure ==
    /\ [](p_result = "err" => ~prod_tx_open)
    /\ [](g_result \in {"err", "cancelled"} => (~prod_rx_open /\ ~emb_tx_open))
    /\ [](exp_result.kind = "err" => ~emb_rx_open)
    /\ StageFailed ~> AllStagesDone

\* Witness of C20: the sink failed, the embedding worker found the channel
\* closed on its send and ended, the producer found its channel closed with
\* rows still to poll, and all three threads are done.
C20_Witness ==
    /\ exp_result.kind = "err"
    /\ g_result = "ok"
    /\ p_result = "ok"
    /\ portal_pos < Len(src_rows)
    /\ Len(rt_log) > 0
    /\ AllStagesDone

=============================================================================
